------------------------ MODULE SoaphtTransportProps ------------------------
(***************************************************************************)
(* What the plugin's HTTP transactions over USB promise.                   *)
(***************************************************************************)
EXTENDS SoaphtTransport

HostOK ==
    /\ pc \in {"idle", "open", "write", "read", "close", "drain", "drained"}
    /\ tx \in 0..Transactions /\ kind \in Kinds
    /\ pc \in {"open", "write", "read", "close"} => tx > 0
    /\ part \in 1..Parts /\ piece \in 1..Pieces /\ elapsed \in Nat
    /\ status \in Statuses /\ answer \in 0..Transactions

WireOK ==
    /\ raw \in Seq(Unit) /\ out \in Seq(Unit)
    /\ owed \in Seq(1..Transactions) /\ next \in Units
    /\ executed \subseteq 1..Transactions

FlagsOK == {user_cancel, halfway, broken} \subseteq BOOLEAN

\* The types of the transport's state.
TypeOK == HostOK /\ WireOK /\ FlagsOK

\* "This preserves the USB response boundary" (docs/BUILD_AND_TEST.md:208): whatever a
\* transaction came to, and whenever the flag was set, the next one finds nothing of it
\* on the channel, unless a transfer itself failed or ran out of time.
Boundary == pc \in {"idle", "open"} /\ ~broken => ~halfway /\ owed = <<>> /\ out = <<>>

\* A body handed to the caller answers the request it made, as long as no transfer failed
\* (a CreateScanJob once received a stale ScanElements, docs/RESEARCH_HISTORY.md:197).
OwnAnswer == pc = "idle" /\ answer # 0 /\ ~broken => answer = tx

\* The budget of a transaction or drain bounds its reads and writes together, and
\* "rounding can add under one second" (docs/BUILD_AND_TEST.md:199).
WithinBudget == pc # "idle" => elapsed < Deadline + Second

\* A CreateScanJob reported as cancelled never reached the scanner: the caller, who has no
\* JobId to cancel, leaves no job behind (soap_transaction_mode, the exception).
CancelledCreateUnsent ==
    pc = "idle" /\ kind = "create" /\ status = "cancelled" => tx \notin executed

\* Every transaction and every drain ends, even if the scanner never answers and whatever
\* trickles in: the deadline is absolute.
TransactionEnds == pc # "idle" ~> pc = "idle"
=============================================================================
