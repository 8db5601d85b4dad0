----------------------------- MODULE CallLedger -----------------------------
(***************************************************************************)
(* What a client of an upstream server promises about the calls made on    *)
(* it, whatever its transport: a call is sent at most once, only on the    *)
(* connection it was made on, and never once that connection's close has   *)
(* begun; and it is settled at most once.                                  *)
(***************************************************************************)
EXTENDS Naturals

CONSTANT Call

VARIABLES
  epoch,  \* the connections opened so far
  open,   \* the last one has not begun to close
  entry   \* [st, epoch]: the state of a call, and the connection it was made on

ledger == <<epoch, open, entry>>

LedgerInit ==
  /\ epoch = 0 /\ open = FALSE
  /\ entry = [c \in Call |-> [st |-> "new", epoch |-> 0]]

Connect ==
  /\ ~open /\ epoch' = epoch + 1 /\ open' = TRUE
  /\ UNCHANGED entry

(* A close settles the calls that were sent.                               *)
Disconnect ==
  /\ open /\ open' = FALSE
  /\ \E lost \in SUBSET {c \in Call : entry[c].st = "sent"} :
       entry' = [c \in Call |-> IF c \in lost THEN [entry[c] EXCEPT !.st = "settled"]
                                ELSE entry[c]]
  /\ UNCHANGED epoch

Make(c) ==
  /\ entry[c].st = "new"
  /\ \E st \in {"made", "settled"} :
       entry' = [entry EXCEPT ![c] = [st |-> st, epoch |-> epoch]]
  /\ UNCHANGED <<epoch, open>>

Send(c) ==
  /\ entry[c].st = "made" /\ open /\ entry[c].epoch = epoch
  /\ entry' = [entry EXCEPT ![c].st = "sent"]
  /\ UNCHANGED <<epoch, open>>

(* Calls are settled one at a time, or together when a connection is lost. *)
Settle ==
  /\ \E some \in SUBSET {c \in Call : entry[c].st \in {"made", "sent"}} :
       /\ some # {}
       /\ entry' = [c \in Call |-> IF c \in some THEN [entry[c] EXCEPT !.st = "settled"]
                                   ELSE entry[c]]
  /\ UNCHANGED <<epoch, open>>

LedgerNext == Connect \/ Disconnect \/ Settle \/ \E c \in Call : Make(c) \/ Send(c)

LedgerSpec == LedgerInit /\ [][LedgerNext]_ledger
=============================================================================
