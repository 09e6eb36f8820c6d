-------------------------- MODULE SoaphtTransport --------------------------
(***************************************************************************)
(* The HTTP transactions of the SOAPHT plugin over its USB channel, one    *)
(* after the other (soap_transaction_mode, write_all, read_http_response,  *)
(* remaining_timeout of soapht-macos/bb_soapht_macos.c), and the drain the *)
(* recovery helper makes (tools/soapht_probe_recovery.h).                  *)
(*                                                                         *)
(* What the channel carries towards the host is a stream that no open or   *)
(* close resets: what one transaction does not read, the next one finds.   *)
(* A reply is three units: its header, its chunks and the chunk that ends  *)
(* it.  A clock of two ticks a second shows how HPMUD's integer timeouts   *)
(* round; open and close have no timeout and take no time here.            *)
(***************************************************************************)
EXTENDS Integers, Sequences

CONSTANTS
    Transactions,   \* bound: transactions made
    Pieces,         \* HPMUD writes one part of a request may need
    Timeout,        \* seconds for a transaction (45; 300 for RetrieveImage)
    CancelTimeout,  \* seconds for CancelJob (5)
    DrainTimeout    \* seconds for a drain (8)

ASSUME TransportAssumption ==
    /\ Transactions \in Nat
    /\ {Pieces, Timeout, CancelTimeout, DrainTimeout} \subseteq Nat \ {0}

VARIABLES
    pc,           \* "idle", "open", "write", "read", "close", "drain", "drained"
    tx,           \* number of the last transaction made
    kind,         \* its request
    part, piece,  \* what write_all sends next
    elapsed,      \* ticks spent since the deadline was set
    raw,          \* units of the reply received
    status,       \* status of the transaction or drain
    answer,       \* transaction whose reply the body is, 0 for no body
    user_cancel,  \* the flag of the session
    \* the scanner and the wire
    halfway,      \* the scanner holds the beginning of a request that never ended
    owed,         \* requests it has to answer, in order
    next,         \* the unit of the first answer that comes next
    out,          \* units sent and not read
    \* history
    executed,     \* transactions whose request the scanner received
    broken        \* a transfer failed or came too late since the channel was last clean

host    == <<pc, tx, kind, part, piece, elapsed, raw, status, answer>>
scanner == <<halfway, owed, next, out>>
history == <<executed, broken>>
vars == <<host, user_cancel, scanner, history>>

Second == 2

Kinds == {"create", "cancel", "other"}
Units == {"head", "body", "end"}
Codes == {"ok", "busy", "fault"}
Unit == [tx : 1..Transactions, unit : Units, code : Codes]
Failures == {"io_error", "busy"}
Statuses == {"good", "cancelled"} \cup Failures
Parts == 4   \* the header, the chunk's size, the envelope, the last chunk

Least(a, b) == IF a <= b THEN a ELSE b

Cancelling == kind = "cancel"
Deadline == Second * (IF pc \in {"drain", "drained"} THEN DrainTimeout
                      ELSE IF Cancelling THEN CancelTimeout ELSE Timeout)

\* remaining_timeout; both loops pass cancelling = 1, so that it never looks at the flag
Expired == elapsed >= Deadline
\* Mutant: a call may use its own limit whatever is left of the budget.
WaitInFull(limit) == Second * limit
Wait(limit) == Second * Least(limit, (Deadline - elapsed + 1) \div Second)
PartTimeout == IF part = 1 THEN Timeout ELSE 1
ReadPoll == 1

\* Mutant: every read has the whole budget.
SpendPerRead(t) == elapsed' = IF pc = "read" THEN t ELSE elapsed + t
Spend(t) == elapsed' = elapsed + t

Init ==
    /\ pc = "idle" /\ tx = 0 /\ kind = "other" /\ part = 1 /\ piece = 1
    /\ elapsed = 0 /\ raw = <<>> /\ status = "good" /\ answer = 0
    /\ user_cancel = FALSE
    /\ halfway = FALSE /\ owed = <<>> /\ next = "head" /\ out = <<>>
    /\ executed = {} /\ broken = FALSE

-----------------------------------------------------------------------------
(* soap_transaction_mode: before a byte is sent *)

Begin(k) ==
    /\ pc = "idle" /\ tx < Transactions
    /\ tx' = tx + 1 /\ kind' = k /\ elapsed' = 0
    /\ part' = 1 /\ piece' = 1 /\ raw' = <<>> /\ answer' = 0
    /\ \/ k # "cancel" /\ user_cancel /\ status' = "cancelled" /\ UNCHANGED pc
       \/ (k = "cancel" \/ ~user_cancel) /\ status' = "good" /\ pc' = "open"
    /\ UNCHANGED <<user_cancel, scanner, history>>

OpenFails ==
    /\ pc = "open" /\ pc' = "idle" /\ status' \in Failures
    /\ UNCHANGED <<tx, kind, part, piece, elapsed, raw, answer, user_cancel,
                   scanner, history>>

Open ==
    /\ pc = "open"
    /\ \/ ~Cancelling /\ user_cancel /\ status' = "cancelled" /\ pc' = "close"
       \/ (Cancelling \/ ~user_cancel) /\ pc' = "write" /\ UNCHANGED status
    /\ UNCHANGED <<tx, kind, part, piece, elapsed, raw, answer, user_cancel,
                   scanner, history>>

-----------------------------------------------------------------------------
(* write_all, for the four parts in turn *)

\* The whole request is with the scanner.  After the beginning of another one it may
\* take it for the rest of that.
Received ==
    /\ executed' = executed \cup {tx}
    /\ owed' = Append(owed, tx) \/ (halfway /\ UNCHANGED owed)
    /\ halfway' = FALSE

\* Mutant: a request written in full is left when the flag is set.
LeavesAfterWrite == IF user_cancel /\ ~Cancelling THEN "close" ELSE "read"
\* Where the host goes once the whole request is written
AfterWrite == "read"

Write ==
    /\ pc = "write" /\ ~Expired
    /\ \E n \in 1..(Pieces - piece + 1), t \in 0..Wait(PartTimeout) :
        /\ Spend(t)
        /\ \/ /\ piece + n <= Pieces
              /\ piece' = piece + n
              /\ UNCHANGED <<pc, part, halfway, owed, executed>>
           \/ /\ piece + n = Pieces + 1 /\ part < Parts
              /\ part' = part + 1 /\ piece' = 1
              /\ UNCHANGED <<pc, halfway, owed, executed>>
           \/ /\ piece + n = Pieces + 1 /\ part = Parts
              /\ pc' = AfterWrite /\ Received
              /\ UNCHANGED <<part, piece>>
    /\ UNCHANGED <<tx, kind, raw, status, answer, user_cancel, next, out, broken>>

\* hpmud_write_channel fails, or writes nothing; any of the bytes may have arrived
WriteFails ==
    /\ pc = "write"
    /\ \/ Expired /\ status' = "io_error" /\ UNCHANGED elapsed
       \/ ~Expired /\ status' \in Failures /\ \E t \in 0..Wait(PartTimeout) : Spend(t)
    /\ pc' = "close" /\ broken' = TRUE
    /\ \/ halfway' \in {halfway \/ part > 1 \/ piece > 1, TRUE}
          /\ UNCHANGED <<owed, executed>>
       \/ ~Expired /\ part = Parts /\ Received
    /\ UNCHANGED <<tx, kind, part, piece, raw, answer, user_cancel, next, out>>

-----------------------------------------------------------------------------
(* read_http_response *)

\* The first blank line ends a header, or the chunks of a reply cut at the front.
HeaderSeen(r) == \E i \in DOMAIN r : r[i].unit \in {"head", "end"}
NotHttp(r) == HeaderSeen(r) /\ r[1].unit # "head"
\* Mutant: an error is returned at its header.
AnsweredAtHeader(r) ==
    ~NotHttp(r) /\ (r[1].code # "ok" \/ \E i \in DOMAIN r : r[i].unit = "end")
Complete(r) == ~NotHttp(r) /\ \E i \in DOMAIN r : r[i].unit = "end"

ReplyStatus(code) ==
    IF code = "ok" THEN "good" ELSE IF code = "busy" THEN "busy" ELSE "io_error"

\* What the loop does with the bytes received so far
Verdict(r) ==
    \/ /\ NotHttp(r)
       /\ pc' = "close" /\ status' = "io_error" /\ UNCHANGED answer
    \/ /\ Complete(r)
       /\ pc' = "close" /\ status' = ReplyStatus(r[1].code)
       /\ answer' = IF status' = "good" THEN r[1].tx ELSE 0
    \/ /\ ~NotHttp(r) /\ ~Complete(r)
       /\ UNCHANGED <<pc, status, answer>>

Read ==
    /\ pc = "read" /\ ~Expired /\ out # <<>>
    /\ \E n \in 1..Len(out), t \in 0..Wait(ReadPoll) :
        /\ Spend(t)
        /\ raw' = raw \o SubSeq(out, 1, n)
        /\ out' = SubSeq(out, n + 1, Len(out))
        /\ Verdict(raw')
    /\ UNCHANGED <<tx, kind, part, piece, user_cancel, halfway, owed, next, history>>

\* HPMUD_R_IO_TIMEOUT without a byte, after some time
EmptyRead ==
    /\ pc = "read" /\ ~Expired /\ out = <<>>
    /\ \E t \in 1..Wait(ReadPoll) : Spend(t)
    /\ UNCHANGED <<pc, tx, kind, part, piece, raw, status, answer, user_cancel,
                   scanner, history>>

\* The deadline, a hard error, or a reply longer than the limit or the memory (whose status
\* SANE_STATUS_NO_MEM is counted as io_error)
ReadFails ==
    /\ pc = "read"
    /\ \/ Expired /\ status' = "io_error" /\ UNCHANGED elapsed
       \/ ~Expired /\ status' \in Failures /\ \E t \in 0..Wait(ReadPoll) : Spend(t)
    /\ pc' = "close" /\ broken' = TRUE
    /\ UNCHANGED <<tx, kind, part, piece, raw, answer, user_cancel, scanner, executed>>

-----------------------------------------------------------------------------
(* soap_transaction_mode: after the reply *)

\* Mutant: the reply of CreateScanJob is dropped like any other.
CancelTakesAll(s) == s = "good" /\ ~Cancelling /\ user_cancel
\* The reply of CreateScanJob is kept, to learn the JobId.
CancelTaken(s) == s = "good" /\ ~Cancelling /\ user_cancel /\ kind # "create"

Close ==
    /\ pc = "close" /\ pc' = "idle"
    /\ \E closed \in {"good"} \cup Failures :
        LET s == IF status = "good" THEN closed ELSE status
        IN  /\ status' = IF CancelTaken(s) THEN "cancelled" ELSE s
            /\ answer' = IF status' = "good" THEN answer ELSE 0
    /\ UNCHANGED <<tx, kind, part, piece, elapsed, raw, user_cancel, scanner, history>>

-----------------------------------------------------------------------------
(* probe_drain_pending *)

BeginDrain ==
    /\ pc = "idle" /\ elapsed' = 0 /\ answer' = 0
    /\ \/ pc' = "drain" /\ status' = "good"
       \/ pc' = "idle" /\ status' \in Failures
    /\ UNCHANGED <<tx, kind, part, piece, raw, user_cancel, scanner, history>>

\* Where the loop goes after a read that brought something
AfterDrained == "drain"

DrainSome ==
    /\ pc = "drain" /\ ~Expired /\ out # <<>> /\ pc' = AfterDrained
    /\ \E n \in 1..Len(out), t \in 0..Second * ReadPoll :
        Spend(t) /\ out' = SubSeq(out, n + 1, Len(out))
    /\ UNCHANGED <<tx, kind, part, piece, raw, status, answer, user_cancel,
                   halfway, owed, next, history>>

\* A quiet second.  The channel is clean then, if no answer was still to come.
DrainQuiet ==
    /\ pc = "drain" /\ ~Expired /\ out = <<>> /\ pc' = "drained"
    /\ Spend(Second * ReadPoll)
    /\ broken' = (broken /\ (owed # <<>> \/ halfway))
    /\ UNCHANGED <<tx, kind, part, piece, raw, status, answer, user_cancel, scanner,
                   executed>>

DrainFails ==
    /\ pc = "drain" /\ pc' = "drained"
    /\ \/ Expired /\ status' = "io_error" /\ UNCHANGED elapsed
       \/ ~Expired /\ status' \in Failures
          /\ \E t \in 0..Second * ReadPoll : Spend(t)
    /\ UNCHANGED <<tx, kind, part, piece, raw, answer, user_cancel, scanner, history>>

DrainClose ==
    /\ pc = "drained" /\ pc' = "idle"
    /\ \E closed \in {"good"} \cup Failures :
        status' = IF status = "good" THEN closed ELSE status
    /\ UNCHANGED <<tx, kind, part, piece, elapsed, raw, answer, user_cancel, scanner,
                   history>>

-----------------------------------------------------------------------------
(* The scanner, and the flag *)

Respond ==
    /\ owed # <<>>
    /\ \E code \in Codes :
        /\ next # "head" => code = "ok"
        /\ out' = Append(out, [tx |-> Head(owed), unit |-> next, code |-> code])
    /\ next' = CASE next = "head" -> "body" [] next = "body" -> "end"
                 [] next = "end" -> "head"
    /\ owed' = IF next = "end" THEN Tail(owed) ELSE owed
    /\ UNCHANGED <<host, user_cancel, halfway, history>>

\* sane_cancel at any moment; cleared between transactions
UserCancel == ~user_cancel /\ user_cancel' = TRUE /\ UNCHANGED <<host, scanner, history>>
UserClear ==
    /\ pc = "idle" /\ user_cancel /\ user_cancel' = FALSE
    /\ UNCHANGED <<host, scanner, history>>

HostSteps == Open \/ OpenFails \/ Write \/ WriteFails \/ Read \/ EmptyRead \/ ReadFails
             \/ Close \/ DrainSome \/ DrainQuiet \/ DrainFails \/ DrainClose

Next ==
    \/ \E k \in Kinds : Begin(k)
    \/ BeginDrain
    \/ HostSteps
    \/ Respond
    \/ UserCancel
    \/ UserClear

Spec == Init /\ [][Next]_vars
\* HPMUD reads and writes return within their timeouts; open and close, which have none,
\* return at some time.
FairSpec == Spec /\ WF_vars(HostSteps)
=============================================================================
