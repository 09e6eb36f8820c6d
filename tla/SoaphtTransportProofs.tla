------------------------ MODULE SoaphtTransportProofs ------------------------
(***************************************************************************)
(* Proofs about the plugin's HTTP transactions over USB, for any budgets,  *)
(* any number of writes a request needs and any number of transactions.    *)
(*                                                                         *)
(* The inductive invariant: reads and writes never overrun the deadline by *)
(* a second (Budgeted); a request is executed only after its last part     *)
(* (Sending); as long as no transfer failed, what was received, what is on *)
(* the channel and what the scanner still owes make up the one reply the   *)
(* running transaction waits for (InStep).                                 *)
(***************************************************************************)
EXTENDS SoaphtTransportProps, SequenceTheorems, TLAPS

Busy == {"open", "write", "read"}

Budgeted ==
    /\ pc # "idle" => elapsed <= Deadline + 1
    /\ pc = "open" => elapsed = 0

Sending ==
    /\ executed \subseteq 1..tx
    /\ pc \in {"open", "write"} => tx \notin executed
    /\ pc \in Busy => status = "good" /\ answer = 0
    /\ pc \in {"drain", "drained"} => status # "cancelled" /\ answer = 0
    /\ pc \in {"idle", "close"} /\ kind = "create" /\ status = "cancelled"
            => tx \notin executed

\* The units of a reply, in the order the scanner sends them
Order == [i \in 1..3 |-> IF i = 1 THEN "head" ELSE IF i = 2 THEN "body" ELSE "end"]

\* r is a part of the reply to transaction t that begins after the first k units
Piece(r, k, t) ==
    \A i \in 1..Len(r) : r[i].tx = t /\ k + i \in 1..3 /\ r[i].unit = Order[k + i]

\* What the scanner owes of the reply to t when it has sent k units of it
Owes(k, t) ==
    \/ k \in 0..2 /\ owed = <<t>> /\ next = Order[k + 1]
    \/ k = 3 /\ owed = <<>> /\ next = "head"

Reading ==
    /\ Len(raw) \in 0..2 /\ Piece(raw, 0, tx)
    /\ Piece(out, Len(raw), tx) /\ Owes(Len(raw) + Len(out), tx)

NothingPending == owed = <<>> /\ out = <<>> /\ next = "head"

InStep ==
    /\ pc \in {"open", "write"} => raw = <<>>
    /\ owed = <<>> => next = "head"
    /\ ~broken => /\ ~halfway /\ answer \in {0, tx}
                  /\ pc = "read" => Reading
                  /\ pc # "read" => NothingPending

LEMMA ReadPieces ==
  ASSUME NEW r \in Seq(Unit), NEW o \in Seq(Unit), NEW t, NEW n \in 1..Len(o),
         Piece(r, 0, t), Piece(o, Len(r), t)
  PROVE  LET R == r \o SubSeq(o, 1, n)
             O == SubSeq(o, n + 1, Len(o))
         IN  /\ R \in Seq(Unit) /\ O \in Seq(Unit)
             /\ Len(R) = Len(r) + n /\ Len(O) = Len(o) - n
             /\ Piece(R, 0, t) /\ Piece(O, Len(R), t)
<1> DEFINE P == SubSeq(o, 1, n)
           R == r \o P
           O == SubSeq(o, n + 1, Len(o))
<1>1. P \in Seq(Unit) /\ Len(P) = n /\ \A i \in 1..n : P[i] = o[i]
  <2>1. \A i \in 1..n : o[i] \in Unit
    BY ElementOfSeq
  <2> QED
    BY <2>1, SubSeqProperties
<1>2. O \in Seq(Unit) /\ Len(O) = Len(o) - n /\ \A i \in 1..(Len(o) - n) : O[i] = o[n + i]
  <2>1. \A i \in (n + 1)..Len(o) : o[i] \in Unit
    BY ElementOfSeq
  <2>2. Len(o) \in Nat
    BY LenProperties
  <2> QED
    BY <2>1, <2>2, SubSeqProperties
<1>4. Len(r) \in Nat /\ Len(o) \in Nat
  BY LenProperties
<1> HIDE DEF P, O
<1>3. /\ R \in Seq(Unit) /\ Len(R) = Len(r) + Len(P)
      /\ \A i \in 1..Len(r) + Len(P) : R[i] = IF i <= Len(r) THEN r[i] ELSE P[i - Len(r)]
  BY <1>1, ConcatProperties
<1> HIDE DEF R
<1>5. Piece(R, 0, t)
  <2> SUFFICES ASSUME NEW i \in 1..Len(R)
               PROVE  R[i].tx = t /\ i \in 1..3 /\ R[i].unit = Order[i]
    BY DEF Piece
  <2>1. CASE i <= Len(r)
    <3>1. R[i] = r[i] /\ i \in 1..Len(r)
      BY <1>1, <1>3, <1>4, <2>1
    <3> QED
      BY <1>4, <3>1 DEF Piece
  <2>2. CASE i > Len(r)
    <3>1. /\ R[i] = o[i - Len(r)] /\ i - Len(r) \in 1..Len(o)
          /\ Len(r) + (i - Len(r)) = i
      BY <1>1, <1>3, <1>4, <2>2
    <3> QED
      BY <1>4, <3>1 DEF Piece
  <2> QED
    BY <1>3, <1>4, <1>1, <2>1, <2>2
<1>6. Piece(O, Len(R), t)
  <2> SUFFICES ASSUME NEW i \in 1..Len(O)
               PROVE  /\ O[i].tx = t /\ Len(R) + i \in 1..3
                      /\ O[i].unit = Order[Len(R) + i]
    BY DEF Piece
  <2>1. O[i] = o[n + i] /\ n + i \in 1..Len(o) /\ Len(r) + (n + i) = Len(R) + i
    BY <1>1, <1>2, <1>3, <1>4
  <2> QED
    BY <2>1 DEF Piece
<1> QED
  BY <1>1, <1>2, <1>3, <1>5, <1>6 DEF P, R, O

LEMMA DeadlineIs ==
  ASSUME HostOK
  PROVE  /\ Deadline \in Nat /\ Deadline >= Second
         /\ ~Expired => elapsed < Deadline
         /\ \A limit \in Nat : Wait(limit) \in Int /\ Wait(limit) <= Deadline - elapsed + 1
<1>1. Deadline \in Nat /\ Deadline >= Second
  BY TransportAssumption DEF HostOK, Deadline, Cancelling, Second
<1>2. elapsed \in Nat
  BY DEF HostOK
<1> QED
  BY <1>1, <1>2 DEF Wait, Least, Second, Expired

LEMMA TypeInit == Init => TypeOK
<1> SUFFICES ASSUME Init PROVE TypeOK
  OBVIOUS
<1>1. HostOK
  BY TransportAssumption DEF Init, HostOK, Statuses, Kinds, Parts
<1>2. WireOK
  BY EmptySeq DEF Init, WireOK, Units
<1>3. FlagsOK
  BY DEF Init, FlagsOK
<1> QED
  BY <1>1, <1>2, <1>3 DEF TypeOK


LEMMA FlagsStep ==
  ASSUME FlagsOK, [Next]_vars
  PROVE  FlagsOK'
<1>1. ASSUME NEW k \in Kinds, Begin(k) PROVE FlagsOK'
  BY TransportAssumption, <1>1 DEF FlagsOK, host, scanner, history, Begin
<1>2. CASE OpenFails
  BY TransportAssumption, <1>2 DEF FlagsOK, host, scanner, history, OpenFails
<1>3. CASE Open
  BY TransportAssumption, <1>3 DEF FlagsOK, host, scanner, history, Open
<1>4. CASE Write
  BY TransportAssumption, <1>4 DEF FlagsOK, host, scanner, history, Write, Received
<1>5. CASE WriteFails
  BY TransportAssumption, <1>5 DEF FlagsOK, host, scanner, history, WriteFails, Received
<1>6. CASE Read
  BY TransportAssumption, <1>6 DEF FlagsOK, host, scanner, history, Read
<1>7. CASE EmptyRead
  BY TransportAssumption, <1>7 DEF FlagsOK, host, scanner, history, EmptyRead
<1>8. CASE ReadFails
  BY TransportAssumption, <1>8 DEF FlagsOK, host, scanner, history, ReadFails
<1>9. CASE Close
  BY TransportAssumption, <1>9 DEF FlagsOK, host, scanner, history, Close
<1>10. CASE BeginDrain
  BY TransportAssumption, <1>10 DEF FlagsOK, host, scanner, history, BeginDrain
<1>11. CASE DrainSome
  BY TransportAssumption, <1>11 DEF FlagsOK, host, scanner, history, DrainSome
<1>12. CASE DrainQuiet
  BY TransportAssumption, <1>12 DEF FlagsOK, host, scanner, history, DrainQuiet
<1>13. CASE DrainFails
  BY TransportAssumption, <1>13 DEF FlagsOK, host, scanner, history, DrainFails
<1>14. CASE DrainClose
  BY TransportAssumption, <1>14 DEF FlagsOK, host, scanner, history, DrainClose
<1>15. CASE Respond
  BY TransportAssumption, <1>15 DEF FlagsOK, host, scanner, history, Respond
<1>16. CASE UserCancel
  BY TransportAssumption, <1>16 DEF FlagsOK, host, scanner, history, UserCancel
<1>17. CASE UserClear
  BY TransportAssumption, <1>17 DEF FlagsOK, host, scanner, history, UserClear
<1>18. CASE UNCHANGED vars
  BY TransportAssumption, <1>18 DEF FlagsOK, host, scanner, history, vars
<1> QED
  BY <1>1, <1>2, <1>3, <1>4, <1>5, <1>6, <1>7, <1>8, <1>9, <1>10, <1>11, <1>12, <1>13,
     <1>14, <1>15, <1>16, <1>17, <1>18 DEF Next, HostSteps


LEMMA WireStep ==
  ASSUME TypeOK, [Next]_vars
  PROVE  WireOK'
<1>0. WireOK /\ HostOK
  BY DEF TypeOK
<1>1. ASSUME NEW k \in Kinds, Begin(k) PROVE WireOK'
  BY <1>0, TransportAssumption, <1>1 DEF WireOK, host, scanner, history, Begin
<1>2. CASE OpenFails
  BY <1>0, TransportAssumption, <1>2 DEF WireOK, host, scanner, history, OpenFails
<1>3. CASE Open
  BY <1>0, TransportAssumption, <1>3 DEF WireOK, host, scanner, history, Open
<1>4. CASE Write
  <2>1. (owed' = Append(owed, tx) \/ owed' = owed) /\ executed' \subseteq executed \cup {tx}
    BY <1>4 DEF Write, Received
  <2>2. Append(owed, tx) \in Seq(1..Transactions) /\ tx \in 1..Transactions
    BY <1>0, <1>4, AppendProperties, TransportAssumption DEF HostOK, WireOK, Write
  <2>3. raw' = raw /\ out' = out /\ next' = next
    BY <1>4 DEF Write
  <2> QED
    BY <1>0, <2>1, <2>2, <2>3 DEF WireOK
<1>5. CASE WriteFails
  <2>1. (owed' = Append(owed, tx) \/ owed' = owed) /\ executed' \subseteq executed \cup {tx}
    BY <1>5 DEF WriteFails, Received
  <2>2. Append(owed, tx) \in Seq(1..Transactions) /\ tx \in 1..Transactions
    BY <1>0, <1>5, AppendProperties, TransportAssumption DEF HostOK, WireOK, WriteFails
  <2>3. raw' = raw /\ out' = out /\ next' = next
    BY <1>5 DEF WriteFails
  <2> QED
    BY <1>0, <2>1, <2>2, <2>3 DEF WireOK
<1>6. CASE Read
  BY <1>0, TransportAssumption, <1>6 DEF WireOK, host, scanner, history, Read
<1>7. CASE EmptyRead
  BY <1>0, TransportAssumption, <1>7 DEF WireOK, host, scanner, history, EmptyRead
<1>8. CASE ReadFails
  BY <1>0, TransportAssumption, <1>8 DEF WireOK, host, scanner, history, ReadFails
<1>9. CASE Close
  BY <1>0, TransportAssumption, <1>9 DEF WireOK, host, scanner, history, Close
<1>10. CASE BeginDrain
  BY <1>0, TransportAssumption, <1>10 DEF WireOK, host, scanner, history, BeginDrain
<1>11. CASE DrainSome
  BY <1>0, TransportAssumption, <1>11 DEF WireOK, host, scanner, history, DrainSome
<1>12. CASE DrainQuiet
  BY <1>0, TransportAssumption, <1>12 DEF WireOK, host, scanner, history, DrainQuiet
<1>13. CASE DrainFails
  BY <1>0, TransportAssumption, <1>13 DEF WireOK, host, scanner, history, DrainFails
<1>14. CASE DrainClose
  BY <1>0, TransportAssumption, <1>14 DEF WireOK, host, scanner, history, DrainClose
<1>15. CASE Respond
  <2>1. PICK code \in Codes :
           out' = Append(out, [tx |-> Head(owed), unit |-> next, code |-> code])
    BY <1>15 DEF Respond
  <2> DEFINE u == [tx |-> Head(owed), unit |-> next, code |-> code]
  <2>2. Head(owed) \in 1..Transactions /\ Tail(owed) \in Seq(1..Transactions)
    BY <1>0, <1>15, HeadTailProperties DEF WireOK, Respond
  <2>3. u \in Unit
    BY <1>0, <2>2 DEF WireOK, Unit
  <2>4. out' \in Seq(Unit)
    <3> HIDE DEF u
    <3>1. out' = Append(out, u)
      BY <2>1 DEF u
    <3> QED
      BY <1>0, <2>3, <3>1, AppendProperties DEF WireOK
  <2>5. (owed' = Tail(owed) \/ owed' = owed) /\ next' \in Units
    BY <1>0, <1>15 DEF Respond, WireOK, Units
  <2>6. raw' = raw /\ executed' = executed
    BY <1>15 DEF Respond, host, history
  <2> QED
    BY <1>0, <2>2, <2>4, <2>5, <2>6 DEF WireOK
<1>16. CASE UserCancel
  BY <1>0, TransportAssumption, <1>16 DEF WireOK, host, scanner, history, UserCancel
<1>17. CASE UserClear
  BY <1>0, TransportAssumption, <1>17 DEF WireOK, host, scanner, history, UserClear
<1>18. CASE UNCHANGED vars
  BY <1>0, TransportAssumption, <1>18 DEF WireOK, host, scanner, history, vars
<1> QED
  BY <1>1, <1>2, <1>3, <1>4, <1>5, <1>6, <1>7, <1>8, <1>9, <1>10, <1>11, <1>12, <1>13,
     <1>14, <1>15, <1>16, <1>17, <1>18 DEF Next, HostSteps


LEMMA HostStep ==
  ASSUME TypeOK, WireOK', [Next]_vars
  PROVE  HostOK'
<1>0. HostOK /\ ReadPoll \in Nat /\ PartTimeout \in Nat
  BY TransportAssumption DEF TypeOK, ReadPoll, PartTimeout
<1>1. ASSUME NEW k \in Kinds, Begin(k) PROVE HostOK'
  BY <1>0, DeadlineIs, TransportAssumption, <1>1 DEF HostOK, host, scanner, history, Kinds,
     Statuses, Failures, Parts, Begin
<1>2. CASE OpenFails
  BY <1>0, DeadlineIs, TransportAssumption, <1>2 DEF HostOK, host, scanner, history, Kinds,
     Statuses, Failures, Parts, OpenFails
<1>3. CASE Open
  BY <1>0, DeadlineIs, TransportAssumption, <1>3 DEF HostOK, host, scanner, history, Kinds,
     Statuses, Failures, Parts, Open
<1>4. CASE Write
  BY <1>0, DeadlineIs, TransportAssumption, <1>4 DEF HostOK, host, scanner, history, Kinds,
     Statuses, Failures, Parts, Write, Spend, Second, AfterWrite, PartTimeout
<1>5. CASE WriteFails
  BY <1>0, DeadlineIs, TransportAssumption, <1>5 DEF HostOK, host, scanner, history, Kinds,
     Statuses, Failures, Parts, WriteFails, Spend, Second, PartTimeout
<1>6. CASE Read
  <2>1. PICK n \in 1..Len(out), t \in 0..Wait(ReadPoll) :
           /\ elapsed' = elapsed + t
           /\ raw' = raw \o SubSeq(out, 1, n)
           /\ Verdict(raw')
    BY <1>6 DEF Read, Spend
  <2>2. elapsed' \in Nat
    BY <1>0, <2>1, DeadlineIs DEF HostOK
  <2>3. tx' = tx /\ kind' = kind /\ part' = part /\ piece' = piece /\ pc = "read"
    BY <1>6 DEF Read
  <2>4. /\ pc' \in {"read", "close"} /\ status' \in Statuses
        /\ answer' = answer \/ answer' = 0 \/ (Complete(raw') /\ answer' = raw'[1].tx)
    BY <1>0, <2>1, <2>3 DEF Verdict, ReplyStatus, Statuses, Failures, HostOK
  <2>5. Complete(raw') => raw'[1].tx \in 1..Transactions
    <3>1. SUFFICES ASSUME Complete(raw') PROVE raw'[1] \in Unit
      BY DEF Unit
    <3>2. raw' \in Seq(Unit)
      BY DEF WireOK
    <3>3. PICK i \in DOMAIN raw' : TRUE
      BY <3>1 DEF Complete
    <3>4. 1 \in 1..Len(raw')
      BY <3>2, <3>3, LenProperties
    <3> QED
      BY <3>2, <3>4, ElementOfSeq
  <2> QED
    BY <1>0, <2>2, <2>3, <2>4, <2>5, TransportAssumption DEF HostOK, Statuses, Failures
<1>7. CASE EmptyRead
  BY <1>0, DeadlineIs, TransportAssumption, <1>7 DEF HostOK, host, scanner, history, Kinds,
     Statuses, Failures, Parts, EmptyRead, Spend, Second, ReadPoll
<1>8. CASE ReadFails
  BY <1>0, DeadlineIs, TransportAssumption, <1>8 DEF HostOK, host, scanner, history, Kinds,
     Statuses, Failures, Parts, ReadFails, Spend, Second, ReadPoll
<1>9. CASE Close
  BY <1>0, DeadlineIs, TransportAssumption, <1>9 DEF HostOK, host, scanner, history, Kinds,
     Statuses, Failures, Parts, Close
<1>10. CASE BeginDrain
  BY <1>0, DeadlineIs, TransportAssumption, <1>10 DEF HostOK, host, scanner, history,
     Kinds, Statuses, Failures, Parts, BeginDrain
<1>11. CASE DrainSome
  <2>1. PICK t \in 0..Second * ReadPoll : elapsed' = elapsed + t
    BY <1>11 DEF DrainSome, Spend
  <2>2. elapsed' \in Nat
    BY <1>0, <2>1 DEF HostOK, Second, ReadPoll
  <2>3. /\ pc' = "drain" /\ tx' = tx /\ kind' = kind /\ part' = part /\ piece' = piece
        /\ status' = status /\ answer' = answer
    BY <1>11 DEF DrainSome, AfterDrained
  <2> QED
    BY <1>0, <2>2, <2>3 DEF HostOK
<1>12. CASE DrainQuiet
  BY <1>0, DeadlineIs, TransportAssumption, <1>12 DEF HostOK, host, scanner, history,
     Kinds, Statuses, Failures, Parts, DrainQuiet, Spend, Second, ReadPoll
<1>13. CASE DrainFails
  BY <1>0, DeadlineIs, TransportAssumption, <1>13 DEF HostOK, host, scanner, history,
     Kinds, Statuses, Failures, Parts, DrainFails, Spend, Second, ReadPoll
<1>14. CASE DrainClose
  BY <1>0, DeadlineIs, TransportAssumption, <1>14 DEF HostOK, host, scanner, history,
     Kinds, Statuses, Failures, Parts, DrainClose
<1>15. CASE Respond
  BY <1>0, DeadlineIs, TransportAssumption, <1>15 DEF HostOK, host, scanner, history,
     Kinds, Statuses, Failures, Parts, Respond
<1>16. CASE UserCancel
  BY <1>0, DeadlineIs, TransportAssumption, <1>16 DEF HostOK, host, scanner, history,
     Kinds, Statuses, Failures, Parts, UserCancel
<1>17. CASE UserClear
  BY <1>0, DeadlineIs, TransportAssumption, <1>17 DEF HostOK, host, scanner, history,
     Kinds, Statuses, Failures, Parts, UserClear
<1>18. CASE UNCHANGED vars
  BY <1>0, DeadlineIs, TransportAssumption, <1>18 DEF HostOK, host, scanner, history,
     Kinds, Statuses, Failures, Parts, vars
<1> QED
  BY <1>1, <1>2, <1>3, <1>4, <1>5, <1>6, <1>7, <1>8, <1>9, <1>10, <1>11, <1>12, <1>13,
     <1>14, <1>15, <1>16, <1>17, <1>18 DEF Next, HostSteps


LEMMA BudgetInit == Init => Budgeted
  BY DEF Init, Budgeted


LEMMA BudgetStep ==
  ASSUME TypeOK, TypeOK', Budgeted, [Next]_vars
  PROVE  Budgeted'
<1>a. HostOK /\ HostOK'
  BY DEF TypeOK
<1>b. /\ elapsed \in Nat /\ elapsed' \in Nat /\ ReadPoll \in Nat /\ PartTimeout \in Nat
      /\ (pc # "idle" => elapsed <= Deadline + 1)
  BY <1>a, TransportAssumption DEF HostOK, ReadPoll, PartTimeout, Budgeted
<1>0. HostOK /\ HostOK' /\ Deadline \in Nat
  BY <1>a, DeadlineIs
<1>1. ASSUME NEW k \in Kinds, Begin(k) PROVE Budgeted'
  <2>1. elapsed' = 0
    BY <1>1 DEF Begin
  <2> QED
    BY <2>1, TransportAssumption DEF Budgeted, Deadline, Cancelling, Second
<1>2. CASE OpenFails
  BY <1>0, TransportAssumption, <1>2 DEF Budgeted, host, scanner, history, Deadline,
     Cancelling, OpenFails
<1>3. CASE Open
  BY <1>0, TransportAssumption, <1>3 DEF Budgeted, host, scanner, history, Deadline,
     Cancelling, Open
<1>4. CASE Write
  <2>1. elapsed' <= Deadline + 1
    BY <1>0, <1>b, <1>4, DeadlineIs DEF Write, Spend, Second, PartTimeout
  <2>2. Deadline' = Deadline
    BY <1>4 DEF Write, Deadline, Cancelling, AfterWrite
  <2>3. pc' # "open"
    BY <1>4 DEF Write, AfterWrite
  <2> QED
    BY <2>1, <2>2, <2>3 DEF Budgeted
<1>5. CASE WriteFails
  <2>1. elapsed' <= Deadline + 1
    BY <1>0, <1>b, <1>5, DeadlineIs DEF WriteFails, Spend, Second, PartTimeout
  <2>2. Deadline' = Deadline
    BY <1>5 DEF WriteFails, Deadline, Cancelling
  <2>3. pc' # "open"
    BY <1>5 DEF WriteFails
  <2> QED
    BY <2>1, <2>2, <2>3 DEF Budgeted
<1>6. CASE Read
  <2>1. elapsed' <= Deadline + 1
    BY <1>0, <1>b, <1>6, DeadlineIs DEF Read, Spend, Second, ReadPoll
  <2>2. Deadline' = Deadline
    BY <1>6 DEF Read, Deadline, Cancelling, Verdict
  <2>3. pc' # "open"
    BY <1>6 DEF Read, Verdict
  <2> QED
    BY <2>1, <2>2, <2>3 DEF Budgeted
<1>7. CASE EmptyRead
  <2>1. elapsed' <= Deadline + 1
    BY <1>0, <1>b, <1>7, DeadlineIs DEF EmptyRead, Spend, Second, ReadPoll
  <2>2. Deadline' = Deadline
    BY <1>7 DEF EmptyRead, Deadline, Cancelling
  <2>3. pc' # "open"
    BY <1>7 DEF EmptyRead
  <2> QED
    BY <2>1, <2>2, <2>3 DEF Budgeted
<1>8. CASE ReadFails
  <2>1. elapsed' <= Deadline + 1
    BY <1>0, <1>b, <1>8, DeadlineIs DEF ReadFails, Spend, Second, ReadPoll
  <2>2. Deadline' = Deadline
    BY <1>8 DEF ReadFails, Deadline, Cancelling
  <2>3. pc' # "open"
    BY <1>8 DEF ReadFails
  <2> QED
    BY <2>1, <2>2, <2>3 DEF Budgeted
<1>9. CASE Close
  BY <1>0, TransportAssumption, <1>9 DEF Budgeted, host, scanner, history, Deadline,
     Cancelling, Close
<1>10. CASE BeginDrain
  <2>1. elapsed' = 0
    BY <1>10 DEF BeginDrain
  <2> QED
    BY <2>1, TransportAssumption DEF Budgeted, Deadline, Cancelling, Second
<1>11. CASE DrainSome
  <2>1. elapsed' <= Deadline + 1
    BY <1>0, <1>b, <1>11, DeadlineIs DEF DrainSome, Spend, Second, ReadPoll
  <2>2. Deadline' = Deadline
    BY <1>11 DEF DrainSome, Deadline, Cancelling, AfterDrained
  <2>3. pc' # "open"
    BY <1>11 DEF DrainSome, AfterDrained
  <2> QED
    BY <2>1, <2>2, <2>3 DEF Budgeted
<1>12. CASE DrainQuiet
  <2>1. elapsed' <= Deadline + 1
    BY <1>0, <1>b, <1>12, DeadlineIs DEF DrainQuiet, Spend, Second, ReadPoll
  <2>2. Deadline' = Deadline
    BY <1>12 DEF DrainQuiet, Deadline, Cancelling
  <2>3. pc' # "open"
    BY <1>12 DEF DrainQuiet
  <2> QED
    BY <2>1, <2>2, <2>3 DEF Budgeted
<1>13. CASE DrainFails
  <2>1. elapsed' <= Deadline + 1
    BY <1>0, <1>b, <1>13, DeadlineIs DEF DrainFails, Spend, Second, ReadPoll
  <2>2. Deadline' = Deadline
    BY <1>13 DEF DrainFails, Deadline, Cancelling
  <2>3. pc' # "open"
    BY <1>13 DEF DrainFails
  <2> QED
    BY <2>1, <2>2, <2>3 DEF Budgeted
<1>14. CASE DrainClose
  BY <1>0, TransportAssumption, <1>14 DEF Budgeted, host, scanner, history, Deadline,
     Cancelling, DrainClose
<1>15. CASE Respond
  BY <1>0, TransportAssumption, <1>15 DEF Budgeted, host, scanner, history, Deadline,
     Cancelling, Respond
<1>16. CASE UserCancel
  BY <1>0, TransportAssumption, <1>16 DEF Budgeted, host, scanner, history, Deadline,
     Cancelling, UserCancel
<1>17. CASE UserClear
  BY <1>0, TransportAssumption, <1>17 DEF Budgeted, host, scanner, history, Deadline,
     Cancelling, UserClear
<1>18. CASE UNCHANGED vars
  BY <1>0, TransportAssumption, <1>18 DEF Budgeted, host, scanner, history, Deadline,
     Cancelling, vars
<1> QED
  BY <1>1, <1>2, <1>3, <1>4, <1>5, <1>6, <1>7, <1>8, <1>9, <1>10, <1>11, <1>12, <1>13,
     <1>14, <1>15, <1>16, <1>17, <1>18 DEF Next, HostSteps


LEMMA SendingInit == Init => Sending
  BY DEF Init, Sending, Busy


LEMMA SendingStep ==
  ASSUME TypeOK, Sending, [Next]_vars
  PROVE  Sending'
<1>0. tx \in Nat /\ HostOK /\ (pc \in {"open", "write", "read", "close"} => tx \in 1..tx)
  BY TransportAssumption DEF TypeOK, HostOK
<1>1. ASSUME NEW k \in Kinds, Begin(k) PROVE Sending'
  BY <1>0, <1>1 DEF Sending, Busy, host, scanner, history, Begin
<1>2. CASE OpenFails
  BY <1>0, <1>2 DEF Sending, Busy, host, scanner, history, OpenFails
<1>3. CASE Open
  BY <1>0, <1>3 DEF Sending, Busy, host, scanner, history, Open
<1>4. CASE Write
  BY <1>0, <1>4 DEF Sending, Busy, host, scanner, history, Write, Received, AfterWrite
<1>5. CASE WriteFails
  BY <1>0, <1>5 DEF Sending, Busy, host, scanner, history, WriteFails, Received, Failures
<1>6. CASE Read
  BY <1>0, <1>6 DEF Sending, Busy, host, scanner, history, Read, Verdict, ReplyStatus
<1>7. CASE EmptyRead
  BY <1>0, <1>7 DEF Sending, Busy, host, scanner, history, EmptyRead
<1>8. CASE ReadFails
  BY <1>0, <1>8 DEF Sending, Busy, host, scanner, history, ReadFails, Failures
<1>9. CASE Close
  BY <1>0, <1>9 DEF Sending, Busy, host, scanner, history, Close, Failures, CancelTaken,
     Cancelling
<1>10. CASE BeginDrain
  BY <1>0, <1>10 DEF Sending, Busy, host, scanner, history, BeginDrain, Failures
<1>11. CASE DrainSome
  BY <1>0, <1>11 DEF Sending, Busy, host, scanner, history, DrainSome, AfterDrained
<1>12. CASE DrainQuiet
  BY <1>0, <1>12 DEF Sending, Busy, host, scanner, history, DrainQuiet
<1>13. CASE DrainFails
  BY <1>0, <1>13 DEF Sending, Busy, host, scanner, history, DrainFails, Failures
<1>14. CASE DrainClose
  BY <1>0, <1>14 DEF Sending, Busy, host, scanner, history, DrainClose, Failures
<1>15. CASE Respond
  BY <1>0, <1>15 DEF Sending, Busy, host, scanner, history, Respond
<1>16. CASE UserCancel
  BY <1>0, <1>16 DEF Sending, Busy, host, scanner, history, UserCancel
<1>17. CASE UserClear
  BY <1>0, <1>17 DEF Sending, Busy, host, scanner, history, UserClear
<1>18. CASE UNCHANGED vars
  BY <1>0, <1>18 DEF Sending, Busy, host, scanner, history, vars
<1> QED
  BY <1>1, <1>2, <1>3, <1>4, <1>5, <1>6, <1>7, <1>8, <1>9, <1>10, <1>11, <1>12, <1>13,
     <1>14, <1>15, <1>16, <1>17, <1>18 DEF Next, HostSteps


LEMMA InStepInit == Init => InStep
  BY DEF Init, InStep, NothingPending

LEMMA InStepStep ==
  ASSUME TypeOK, TypeOK', Sending, InStep, [Next]_vars
  PROVE  InStep'
<1>a. HostOK /\ WireOK
  BY DEF TypeOK
<1>b. pc = "write" => Append(owed, tx) # <<>>
  <2>1. pc = "write" => tx \in 1..Transactions
    BY <1>a, TransportAssumption DEF HostOK
  <2> QED
    BY <1>a, <2>1, AppendProperties DEF WireOK
<1>c. ASSUME Reading, raw' = raw, out' = out, tx' = tx, owed' = owed, next' = next
      PROVE  Reading'
  BY <1>c DEF Reading, Piece, Owes
<1>1. ASSUME NEW k \in Kinds, Begin(k) PROVE InStep'
  BY <1>a, <1>1 DEF InStep, NothingPending, host, scanner, history, Begin
<1>2. CASE OpenFails
  BY <1>a, <1>2 DEF InStep, NothingPending, host, scanner, history, OpenFails
<1>3. CASE Open
  BY <1>a, <1>3 DEF InStep, NothingPending, host, scanner, history, Open
<1>4. CASE Write
  <2>1. raw' = raw /\ out' = out /\ tx' = tx /\ answer' = answer /\ broken' = broken
    BY <1>4 DEF Write
  <2>2. pc = "write" /\ raw = <<>> /\ next' = next
    BY <1>4 DEF Write, InStep
  <2>3. CASE pc' = pc /\ halfway' = halfway /\ owed' = owed
    BY <2>1, <2>2, <2>3 DEF InStep, NothingPending
  <2>4. CASE pc' = "read" /\ Received
    <3>1. owed' = <<>> => owed = <<>>
      BY <1>b, <2>4 DEF Received
    <3>2. ASSUME ~broken PROVE Reading' /\ ~halfway' /\ answer' \in {0, tx'}
      <4>1. owed = <<>> /\ out = <<>> /\ next = "head" /\ ~halfway /\ answer \in {0, tx}
        BY <2>2, <3>2 DEF InStep, NothingPending
      <4>2. owed' = <<tx>> /\ ~halfway'
        BY <2>4, <4>1 DEF Received
      <4>3. Piece(<<>>, 0, tx) /\ Len(<<>>) = 0
        BY DEF Piece
      <4> QED
        BY <2>1, <2>2, <4>1, <4>2, <4>3 DEF Reading, Owes, Order
    <3> QED
      BY <2>1, <2>2, <2>4, <3>1, <3>2 DEF InStep
  <2> QED
    BY <2>3, <2>4, <1>4 DEF Write, AfterWrite
<1>5. CASE WriteFails
  <2>1. broken' = TRUE /\ pc' = "close" /\ next' = next
    BY <1>5 DEF WriteFails
  <2>2. owed' = <<>> => owed = <<>>
    BY <1>a, <1>b, <1>5 DEF WriteFails, Received
  <2> QED
    BY <2>1, <2>2 DEF InStep
<1>6. CASE Read
  <2>1. PICK n \in 1..Len(out) :
           /\ raw' = raw \o SubSeq(out, 1, n)
           /\ out' = SubSeq(out, n + 1, Len(out))
           /\ Verdict(raw')
    BY <1>6 DEF Read
  <2>2. /\ pc = "read" /\ tx' = tx /\ halfway' = halfway /\ owed' = owed /\ next' = next
        /\ broken' = broken
    BY <1>6 DEF Read, history
  <2>3. pc' \in {"read", "close"}
    BY <2>1, <2>2 DEF Verdict
  <2>4. ASSUME ~broken
        PROVE  /\ answer' \in {0, tx}
               /\ pc' = "read" => Reading'
               /\ pc' # "read" => NothingPending'
    <3>0. Reading /\ answer \in {0, tx}
      BY <2>2, <2>4 DEF InStep
    <3>1. /\ raw' \in Seq(Unit) /\ out' \in Seq(Unit)
          /\ Len(raw') = Len(raw) + n /\ Len(out') = Len(out) - n
          /\ Piece(raw', 0, tx) /\ Piece(out', Len(raw'), tx)
      BY <1>a, <2>1, <3>0, ReadPieces DEF Reading, WireOK
    <3>2. Len(raw) \in Nat /\ Len(out) \in Nat
      BY <1>a, LenProperties DEF WireOK
    <3>3. Owes(Len(raw') + Len(out'), tx)
      <4>1. Len(raw') + Len(out') = Len(raw) + Len(out)
        BY <3>1, <3>2
      <4> QED
        BY <3>0, <4>1 DEF Reading
    <3>4. Len(raw') + Len(out') \in 0..3
      BY <3>3 DEF Owes
    <3>5. /\ Len(raw') \in 1..3 /\ Len(out') \in 0..2 /\ DOMAIN raw' = 1..Len(raw')
      BY <3>1, <3>2, <3>4, LenProperties
    <3>6. raw'[1].unit = "head" /\ raw'[1].tx = tx
      <4>1. 1 \in 1..Len(raw') /\ 0 + 1 = 1
        BY <3>5
      <4> QED
        BY <3>1, <4>1 DEF Piece, Order
    <3>7. ~NotHttp(raw')
      BY <3>6 DEF NotHttp
    <3>8. CASE Complete(raw')
      <4>1. pc' = "close" /\ answer' \in {0, tx}
        BY <2>1, <3>6, <3>7, <3>8 DEF Verdict
      <4>2. PICK i \in 1..Len(raw') : raw'[i].unit = "end"
        BY <3>5, <3>8 DEF Complete
      <4>3. raw'[i].unit = Order[i] /\ i \in 1..3
        BY <3>1, <4>2 DEF Piece
      <4>4. Len(raw') = 3
        BY <3>5, <4>2, <4>3 DEF Order
      <4>5. Len(out') = 0 /\ owed = <<>> /\ next = "head"
        BY <3>3, <3>4, <3>5, <4>4 DEF Owes
      <4>6. out' = <<>>
        BY <3>1, <4>5, EmptySeq
      <4> QED
        BY <2>2, <4>1, <4>5, <4>6 DEF NothingPending
    <3>9. CASE ~Complete(raw')
      <4>1. pc' = pc /\ answer' = answer
        BY <2>1, <3>7, <3>9 DEF Verdict
      <4>2. Len(raw') # 3
        <5>1. SUFFICES ASSUME Len(raw') = 3 PROVE FALSE
          OBVIOUS
        <5>2. raw'[3].unit = "end"
          <6>1. 3 \in 1..Len(raw') /\ 0 + 3 = 3
            BY <5>1
          <6>2. raw'[3].unit = Order[3]
            BY <3>1, <6>1 DEF Piece
          <6> QED
            BY <6>2 DEF Order
        <5> QED
          BY <3>5, <3>7, <3>9, <5>1, <5>2 DEF Complete
      <4>3. Reading'
        BY <2>2, <3>1, <3>3, <3>5, <4>2 DEF Reading, Owes
      <4> QED
        BY <2>2, <3>0, <4>1, <4>3
    <3> QED
      BY <3>8, <3>9
  <2> QED
    BY <2>2, <2>3, <2>4 DEF InStep
<1>7. CASE EmptyRead
  <2>1. /\ raw' = raw /\ out' = out /\ tx' = tx /\ owed' = owed /\ next' = next
        /\ pc' = pc /\ answer' = answer /\ halfway' = halfway /\ broken' = broken
    BY <1>7 DEF EmptyRead, host, scanner, history
  <2>2. Reading => Reading'
    BY <1>c, <2>1
  <2> QED
    BY <2>1, <2>2 DEF InStep, NothingPending
<1>8. CASE ReadFails
  <2>1. broken' = TRUE /\ pc' = "close" /\ next' = next
    BY <1>8 DEF ReadFails, scanner
  <2>2. owed' = <<>> => owed = <<>>
    BY <1>8 DEF ReadFails, scanner
  <2> QED
    BY <2>1, <2>2 DEF InStep
<1>9. CASE Close
  BY <1>a, <1>9 DEF InStep, NothingPending, host, scanner, history, Close
<1>10. CASE BeginDrain
  BY <1>a, <1>10 DEF InStep, NothingPending, host, scanner, history, BeginDrain
<1>11. CASE DrainSome
  <2>1. /\ pc = "drain" /\ pc' = "drain" /\ owed' = owed /\ next' = next
        /\ broken' = broken /\ out # <<>>
    BY <1>11 DEF DrainSome, AfterDrained, history
  <2> QED
    BY <2>1 DEF InStep, NothingPending
<1>12. CASE DrainQuiet
  <2>1. /\ pc' = "drained" /\ owed' = owed /\ next' = next /\ out' = out /\ out = <<>>
        /\ answer' = answer /\ tx' = tx /\ halfway' = halfway /\ pc = "drain"
    BY <1>12 DEF DrainQuiet, scanner
  <2>2. answer = 0
    BY <2>1 DEF Sending
  <2>3. ~broken' => ~broken \/ (owed = <<>> /\ ~halfway)
    BY <1>12 DEF DrainQuiet
  <2> QED
    BY <2>1, <2>2, <2>3 DEF InStep, NothingPending
<1>13. CASE DrainFails
  BY <1>a, <1>13 DEF InStep, NothingPending, host, scanner, history, DrainFails
<1>14. CASE DrainClose
  BY <1>a, <1>14 DEF InStep, NothingPending, host, scanner, history, DrainClose
<1>15. CASE Respond
  <2>1. PICK code \in Codes :
           out' = Append(out, [tx |-> Head(owed), unit |-> next, code |-> code])
    BY <1>15 DEF Respond
  <2>2. /\ pc' = pc /\ tx' = tx /\ raw' = raw /\ answer' = answer /\ halfway' = halfway
        /\ broken' = broken
    BY <1>15 DEF Respond, host, history
  <2>3. owed # <<>> /\ next \in Units
    BY <1>a, <1>15 DEF Respond, WireOK
  <2>4. owed' = IF next = "end" THEN Tail(owed) ELSE owed
    BY <1>15 DEF Respond
  <2>5. next' = IF next = "head" THEN "body" ELSE IF next = "body" THEN "end" ELSE "head"
    BY <2>3, <1>15 DEF Respond, Units
  <2>6. ASSUME ~broken, pc # "read" PROVE FALSE
    BY <2>3, <2>6 DEF InStep, NothingPending
  <2>7. ASSUME ~broken, pc = "read" PROVE Reading'
    <3>0. Reading
      BY <2>7 DEF InStep
    <3> DEFINE k == Len(raw) + Len(out)
    <3>1. k \in 0..2 /\ owed = <<tx>> /\ next = Order[k + 1]
      BY <2>3, <3>0 DEF Reading, Owes
    <3> DEFINE u == [tx |-> Head(owed), unit |-> next, code |-> code]
    <3>2. u.tx = tx /\ u.unit = Order[k + 1] /\ u \in Unit
      <4>1. Head(owed) = tx /\ tx \in 1..Transactions
        BY <1>a, <2>7, <3>1, TransportAssumption DEF HostOK
      <4> QED
        BY <2>3, <3>1, <4>1 DEF Unit
    <3>3. Len(raw) \in Nat /\ Len(out) \in Nat
      BY <1>a, LenProperties DEF WireOK
    <3>4. out' = Append(out, u)
      BY <2>1
    <3> HIDE DEF u
    <3>5. /\ Len(out') = Len(out) + 1 /\ out'[Len(out) + 1] = u
          /\ \A i \in 1..Len(out) : out'[i] = out[i]
      BY <1>a, <3>2, <3>4, AppendProperties DEF WireOK
    <3>6. Piece(out', Len(raw), tx)
      <4> SUFFICES ASSUME NEW i \in 1..Len(out')
                   PROVE  /\ out'[i].tx = tx /\ Len(raw) + i \in 1..3
                          /\ out'[i].unit = Order[Len(raw) + i]
        BY DEF Piece
      <4>1. CASE i \in 1..Len(out)
        BY <3>0, <3>5, <4>1 DEF Reading, Piece
      <4>2. CASE i = Len(out) + 1
        <5>1. Len(raw) + i = k + 1 /\ Len(raw) + i \in 1..3
          BY <3>1, <3>3, <4>2
        <5> QED
          BY <3>2, <3>5, <4>2, <5>1
      <4> QED
        BY <3>3, <3>5, <4>1, <4>2
    <3>7. Len(raw) + Len(out') = k + 1
      BY <3>3, <3>5
    <3>8. \/ k + 1 \in 0..2 /\ owed' = <<tx>> /\ next' = Order[(k + 1) + 1]
          \/ k + 1 = 3 /\ owed' = <<>> /\ next' = "head"
      <4>1. CASE k = 2
        <5>1. owed' = <<>> /\ next' = "head"
          BY <2>4, <2>5, <3>1, <4>1 DEF Order
        <5> QED
          BY <4>1, <5>1
      <4>2. CASE k \in 0..1
        <5>1. owed' = <<tx>> /\ next' = Order[k + 2]
          BY <2>4, <2>5, <3>1, <4>2 DEF Order
        <5>2. k + 1 \in 0..2 /\ (k + 1) + 1 = k + 2
          BY <4>2
        <5> QED
          BY <5>1, <5>2
      <4> QED
        BY <3>1, <4>1, <4>2
    <3> QED
      <4> HIDE DEF k
      <4>1. Owes(Len(raw) + Len(out), tx)'
        BY <2>2, <3>7, <3>8 DEF Owes
      <4>2. Len(raw') \in 0..2 /\ Piece(raw', 0, tx') /\ Piece(out', Len(raw'), tx')
        BY <2>2, <3>0, <3>6 DEF Reading
      <4> QED
        BY <4>1, <4>2 DEF Reading
  <2>8. owed' = <<>> => next' = "head"
    BY <2>3, <2>4, <2>5
  <2> QED
    BY <2>2, <2>6, <2>7, <2>8 DEF InStep
<1>16. CASE UserCancel
  <2>1. /\ raw' = raw /\ out' = out /\ tx' = tx /\ owed' = owed /\ next' = next
        /\ pc' = pc /\ answer' = answer /\ halfway' = halfway /\ broken' = broken
    BY <1>16 DEF UserCancel, host, scanner, history
  <2>2. Reading => Reading'
    BY <1>c, <2>1
  <2> QED
    BY <2>1, <2>2 DEF InStep, NothingPending
<1>17. CASE UserClear
  BY <1>a, <1>17 DEF InStep, NothingPending, host, scanner, history, UserClear
<1>18. CASE UNCHANGED vars
  <2>1. /\ raw' = raw /\ out' = out /\ tx' = tx /\ owed' = owed /\ next' = next
        /\ pc' = pc /\ answer' = answer /\ halfway' = halfway /\ broken' = broken
    BY <1>18 DEF vars, host, scanner, history
  <2>2. Reading => Reading'
    BY <1>c, <2>1
  <2> QED
    BY <2>1, <2>2 DEF InStep, NothingPending
<1> QED
  BY <1>1, <1>2, <1>3, <1>4, <1>5, <1>6, <1>7, <1>8, <1>9, <1>10, <1>11, <1>12, <1>13,
     <1>14, <1>15, <1>16, <1>17, <1>18 DEF Next, HostSteps


IInv == TypeOK /\ Budgeted /\ Sending /\ InStep

LEMMA Inductive == Spec => []IInv
<1>1. Init => IInv
  BY TypeInit, BudgetInit, SendingInit, InStepInit DEF IInv
<1>2. IInv /\ [Next]_vars => IInv'
  <2> SUFFICES ASSUME IInv, [Next]_vars PROVE IInv'
    OBVIOUS
  <2>1. WireOK' /\ FlagsOK'
    BY WireStep, FlagsStep DEF IInv, TypeOK
  <2>2. TypeOK'
    BY <2>1, HostStep DEF IInv, TypeOK
  <2> QED
    BY <2>2, BudgetStep, SendingStep, InStepStep DEF IInv
<1> QED
  BY <1>1, <1>2, PTL DEF Spec

\* The transport's state keeps its types, for any budgets and any number of transactions.
THEOREM TypeCorrect == Spec => []TypeOK
<1>1. IInv => TypeOK
  BY DEF IInv
<1> QED
  BY <1>1, Inductive, PTL

\* The reads and writes of a transaction and of a drain never overrun the deadline by a
\* second, however many of them are rounded up.
THEOREM BudgetIsKept == Spec => []WithinBudget
<1>1. IInv => WithinBudget
  <2>1. ASSUME TypeOK, Budgeted PROVE WithinBudget
    <3>1. Deadline \in Nat /\ elapsed \in Nat
      BY <2>1, DeadlineIs DEF TypeOK, HostOK
    <3> QED
      BY <2>1, <3>1 DEF Budgeted, WithinBudget, Second
  <2> QED
    BY <2>1 DEF IInv
<1> QED
  BY <1>1, Inductive, PTL

\* A CreateScanJob that the caller is told was cancelled was never received.
THEOREM NoUnknownJob == Spec => []CancelledCreateUnsent
<1>1. IInv => CancelledCreateUnsent
  BY DEF IInv, Sending, CancelledCreateUnsent
<1> QED
  BY <1>1, Inductive, PTL

\* As long as no transfer fails, every transaction starts on a clean channel, whatever the
\* scanner answered to the others, in however many pieces, and whenever they were cancelled.
THEOREM ChannelIsClean == Spec => []Boundary
<1>1. IInv => Boundary
  BY DEF IInv, InStep, NothingPending, Boundary
<1> QED
  BY <1>1, Inductive, PTL

\* As long as no transfer fails, a body returned to the caller answers its own request.
THEOREM AnswersMatch == Spec => []OwnAnswer
<1>1. IInv => OwnAnswer
  BY DEF IInv, InStep, OwnAnswer
<1> QED
  BY <1>1, Inductive, PTL


=============================================================================
