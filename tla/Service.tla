------------------------------ MODULE Service -------------------------------
(***************************************************************************)
(* What the models of the smaller services share: a Handler is one request *)
(* in progress, and a collection maps ids to documents.  The id of a       *)
(* document that was deleted is not used again.                            *)
(***************************************************************************)
CONSTANTS
    Handler,  \* the requests that may be in progress together
    None,     \* no document, no value
    Deleted   \* a document that was deleted

ASSUME ServiceAssumption == None # Deleted

\* Documents that are there, and ids that were never used.
StoredIn(collection) ==
    {i \in DOMAIN collection : collection[i] \notin {None, Deleted}}

UnusedIn(collection) == {i \in DOMAIN collection : collection[i] = None}
=============================================================================
