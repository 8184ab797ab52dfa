----------------------------- MODULE EntryLedger -----------------------------
(***************************************************************************)
(* What the pallet promises of the mints, the burns and the refunds it      *)
(* keeps: an entry is opened with its terms (who gets how much), is closed   *)
(* with the terms it was opened with, and only one entry changes at a time.  *)
(* Nothing is said of votes, signatures, fees and blocks.                   *)
(***************************************************************************)
CONSTANTS
    Id,
    Terms,
    None,           \* no such entry
    AtOnce,         \* an entry may be closed in the step that opens it
    MayReopen       \* a closed entry may be opened again

VARIABLES
    open,           \* the terms of the entries that are open
    closed          \* the terms of the entries that were closed

Empty == [id \in Id |-> None]

LedgerInit == open = Empty /\ closed = Empty

Open(id) ==
    /\ open[id] = None
    /\ closed[id] = None \/ MayReopen
    /\ open'[id] \in Terms
    /\ open' = [open EXCEPT ![id] = open'[id]]
    /\ UNCHANGED closed

Close(id) ==
    /\ open[id] # None /\ closed[id] = None
    /\ closed' = [closed EXCEPT ![id] = open[id]]
    /\ open' = [open EXCEPT ![id] = None]

OpenAndClose(id) ==
    /\ AtOnce
    /\ open[id] = None /\ closed[id] = None
    /\ closed'[id] \in Terms
    /\ closed' = [closed EXCEPT ![id] = closed'[id]]
    /\ UNCHANGED open

LedgerNext == \E id \in Id : Open(id) \/ Close(id) \/ OpenAndClose(id)

LedgerSpec == LedgerInit /\ [][LedgerNext]_<<open, closed>>
=============================================================================
