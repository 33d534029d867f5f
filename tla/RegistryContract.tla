-------------------------- MODULE RegistryContract ---------------------------
(***************************************************************************)
(* What the registry promises, with no ids and no requests that overlap or *)
(* hold rows read earlier: a catalogue in which a slug names one service,  *)
(* changed by one whole creation, edit, removal or seeding at a time.      *)
(***************************************************************************)

CONSTANTS
  Columns,  \* the services there can be: records with a slug
  Default   \* the default services

VARIABLE catalogue  \* the services there are

Free(slug) == \A c \in catalogue : c.slug # slug

Init ==
  /\ catalogue \in SUBSET Columns
  /\ \A c, d \in catalogue : c.slug = d.slug => c = d

Create(c) ==
  /\ Free(c.slug)
  /\ catalogue' = catalogue \cup {c}

(* A starting replica adds defaults whose slugs are free, in one step.      *)
Seed(missing) ==
  /\ \A c \in missing : Free(c.slug)
  /\ catalogue' = catalogue \cup missing

(* c becomes d, perhaps under another slug, but not one that is taken.      *)
Edit(c, d) ==
  /\ Free(d.slug) \/ d.slug = c.slug
  /\ catalogue' = (catalogue \ {c}) \cup {d}

Remove(c) == catalogue' = catalogue \ {c}

Next ==
  \/ \E c \in Columns : Create(c)
  \/ \E missing \in SUBSET Default : Seed(missing)
  \/ \E c \in catalogue : Remove(c) \/ \E d \in Columns : Edit(c, d)

Spec == Init /\ [][Next]_catalogue

=============================================================================
