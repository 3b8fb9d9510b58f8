--------------------------- MODULE MCDeleteConfirm ---------------------------
(* Small instances of DeleteConfirm for TLC. *)
EXTENDS DeleteConfirm, TLC

CONSTANT x

AllSources == Messages \cup (Interactions \X Tokens)

\* Two rows to choose from, the undoing of a deletion, and a batch that is
\* refused.
SomeEdits ==
  { <<[kind |-> "create", id |-> 0, content |-> x], [kind |-> "create", id |-> 0, content |-> x]>>,
    <<[kind |-> "restore", id |-> 1, content |-> None]>>,
    <<[kind |-> "create", id |-> 0, content |-> None]>> }

\* Ids of messages, presses, prompts and identities are interchangeable.
Ids == Permutations(Messages) \cup Permutations(Interactions) \cup Permutations(Tokens)
       \cup Permutations(Scopes)
=============================================================================
