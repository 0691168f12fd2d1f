-------------------------------- MODULE Lists --------------------------------
(***************************************************************************)
(* list_t of list.c as a sequence, head first.  list_push_front, and       *)
(* list_pop_front and list_pop_back with the tests that come with them,    *)
(* are written where they are called.                                      *)
(***************************************************************************)
EXTENDS Integers, SequencesExt

WithoutStays(list, b) == list

\* list_remove of the node of b, if it is linked.
Without(list, b) ==
    IF \E i \in DOMAIN list : list[i] = b
    THEN RemoveAt(list, CHOOSE i \in DOMAIN list : list[i] = b)
    ELSE list
=============================================================================
