---------------------------- MODULE StreamProofs ----------------------------
(***************************************************************************)
(* For every number of lines and every capacity: the goroutines of         *)
(* startStream never send on a closed channel, never block on the channel  *)
(* of errors, lose no line on the way to a consumer that stays, and keep   *)
(* the promise of LineFeed.                                                *)
(***************************************************************************)
EXTENDS Stream, SequenceTheorems, TLAPS

One(condition) == IF condition THEN 1 ELSE 0

\* The most errors there can be: one of each scanner that ended, one of the process.
Posted == One(scanner["stdout"] = "done") + One(scanner["stderr"] = "done")
          + One(closer \in {"close", "done"})

\* The order of the closer's steps, and what can have been posted when.
CloserInv ==
  /\ proc = "off" <=> closer = "off"
  /\ \A p \in Pipes : scanner[p] = "off" <=> closer = "off"
  /\ closed <=> closer \in {"wait", "post", "close", "done"}
  /\ closed => ScannersDone
  /\ errsClosed <=> closer = "done"
  /\ Len(errs) <= Posted
  /\ closer \in {"off", "join"} => \A i \in 1..Len(errs) : errs[i] = "scan"
  /\ closer = "post" => proc \in {"failed", "killed"}
  /\ proc = "running" => held
  /\ proc = "off" => ~held

\* A scanner that is done has read its pipe to the end, or an error tells otherwise.
DoneInv ==
  \A p \in Pipes :
    scanner[p] = "done" => \/ ~held /\ scanned[p] = written[p]
                           \/ \E i \in 1..Len(errs) : errs[i] = "scan"

\* The lines of p that were sent to the channel.
Sent(p) == IF scanner[p] = "send" THEN scanned[p] - 1 ELSE scanned[p]

\* The channel L holds, of the lines of p, those after the g-th up to the s-th.
InOrder(p, L, g, s) ==
  /\ g <= s
  /\ \A m \in (g + 1)..s : \E k \in 1..Len(L) : L[k][1] = p /\ L[k][2] = m
  /\ \A k \in 1..Len(L) : L[k][1] = p => g < L[k][2] /\ L[k][2] <= s
  /\ \A j, k \in 1..Len(L) : j < k /\ L[j][1] = p /\ L[k][1] = p => L[j][2] < L[k][2]

\* The consumer has got the first lines of each pipe, the channel holds the others
\* that were sent.
OrderInv ==
  \A p \in Pipes :
    /\ scanned[p] <= written[p]
    /\ scanner[p] = "send" => scanned[p] > 0
    /\ \A i \in 1..Len(got[p]) : got[p][i] = i
    /\ InOrder(p, lines, Len(got[p]), Sent(p))

----------------------------------------------------------------------------
LEMMA LineParts ==
  ASSUME NEW l \in Lines
  PROVE  l = <<l[1], l[2]>> /\ l[1] \in Pipes /\ l[2] \in 1..MaxLines /\ l[2] \in Nat
  BY StreamAssumption DEF Lines

\* Every variable keeps its type.
LEMMA TypeStep == TypeOK /\ OrderInv /\ [Next]_vars => TypeOK'
<1> SUFFICES ASSUME TypeOK, OrderInv, [Next]_vars PROVE TypeOK'
  OBVIOUS
<1> USE StreamAssumption DEF TypeOK, pipeVars, chanVars, ErrCap
<1>1. CASE Start
  BY <1>1 DEF Start
<1>2. ASSUME NEW p \in Pipes, Scanner(p) PROVE TypeOK'
  <2>1. CASE ScanLine(p)
    BY <1>2, <2>1 DEF ScanLine
  <2>2. CASE SendLine(p)
    <3>1. <<p, scanned[p]>> \in Lines
      BY <1>2, <2>2 DEF SendLine, OrderInv, Lines
    <3> QED
      BY <2>2, <3>1 DEF SendLine
  <2>3. CASE ScanEnds(p)
    BY <1>2, <2>3 DEF ScanEnds
  <2>4. CASE ScanFails(p)
    BY <1>2, <2>4 DEF ScanFails
  <2>5. CASE PostScanError(p)
    BY <1>2, <2>5 DEF PostScanError
  <2> QED
    BY <1>2, <2>1, <2>2, <2>3, <2>4, <2>5 DEF Scanner
<1>3. CASE Closer
  <2>1. CASE CloseLines
    BY <2>1 DEF CloseLines
  <2>2. CASE Reap
    BY <2>2 DEF Reap
  <2>3. CASE PostExit
    BY <2>3 DEF PostExit
  <2>4. CASE CloseErrs
    BY <2>4 DEF CloseErrs
  <2> QED
    BY <1>3, <2>1, <2>2, <2>3, <2>4 DEF Closer
<1>4. CASE Process
  <2>1. ASSUME NEW p \in Pipes, Write(p) PROVE TypeOK'
    BY <2>1 DEF Write
  <2>2. ASSUME NEW how \in {"exited", "failed", "killed"}, Exit(how) PROVE TypeOK'
    BY <2>2 DEF Exit
  <2>3. CASE ReleasePipes
    BY <2>3 DEF ReleasePipes
  <2> QED
    BY <1>4, <2>1, <2>2, <2>3 DEF Process
<1>5. CASE Receive
  <2>1. Head(lines)[1] \in Pipes /\ Head(lines)[2] \in 1..MaxLines
    BY <1>5, LineParts DEF Receive
  <2> QED
    BY <1>5, <2>1 DEF Receive
<1>6. CASE Leave
  BY <1>6 DEF Leave
<1>7. CASE UNCHANGED vars
  BY <1>7 DEF vars
<1> QED
  BY <1>1, <1>2, <1>3, <1>4, <1>5, <1>6, <1>7 DEF Next, Terminated

LEMMA CloserStep == TypeOK /\ CloserInv /\ [Next]_vars => CloserInv'
<1> SUFFICES ASSUME TypeOK, CloserInv, [Next]_vars PROVE CloserInv'
  OBVIOUS
<1> USE DEF CloserInv, TypeOK, pipeVars, chanVars, Posted, One, ScannersDone, Pipes, ErrCap
<1>1. CASE Start
  BY <1>1 DEF Start
<1>2. ASSUME NEW p \in Pipes, Scanner(p) PROVE CloserInv'
  <2>1. CASE ScanLine(p)
    BY <1>2, <2>1 DEF ScanLine
  <2>2. CASE SendLine(p)
    BY <1>2, <2>2 DEF SendLine
  <2>3. CASE ScanEnds(p)
    BY <1>2, <2>3 DEF ScanEnds
  <2>4. CASE ScanFails(p)
    BY <1>2, <2>4 DEF ScanFails
  <2>5. CASE PostScanError(p)
    BY <1>2, <2>5 DEF PostScanError
  <2> QED
    BY <1>2, <2>1, <2>2, <2>3, <2>4, <2>5 DEF Scanner
<1>3. CASE Closer
  <2>1. CASE CloseLines
    BY <2>1 DEF CloseLines
  <2>2. CASE Reap
    BY <2>2 DEF Reap
  <2>3. CASE PostExit
    BY <2>3 DEF PostExit
  <2>4. CASE CloseErrs
    BY <2>4 DEF CloseErrs
  <2> QED
    BY <1>3, <2>1, <2>2, <2>3, <2>4 DEF Closer
<1>4. CASE Process
  BY <1>4 DEF Process, Write, Exit, ReleasePipes
<1>5. CASE Receive \/ Leave
  BY <1>5 DEF Receive, Leave
<1>6. CASE UNCHANGED vars
  BY <1>6 DEF vars
<1> QED
  BY <1>1, <1>2, <1>3, <1>4, <1>5, <1>6 DEF Next, Terminated

LEMMA DoneStep == TypeOK /\ CloserInv /\ DoneInv /\ [Next]_vars => DoneInv'
<1> SUFFICES ASSUME TypeOK, CloserInv, DoneInv, [Next]_vars,
                    NEW q \in Pipes, scanner'[q] = "done"
             PROVE  \/ ~held' /\ scanned'[q] = written'[q]
                    \/ \E i \in 1..Len(errs') : errs'[i] = "scan"
  BY DEF DoneInv
<1> USE DEF CloserInv, DoneInv, TypeOK, pipeVars, chanVars
<1>1. CASE Start
  BY <1>1 DEF Start
<1>2. ASSUME NEW p \in Pipes, Scanner(p)
      PROVE  \/ ~held' /\ scanned'[q] = written'[q]
             \/ \E i \in 1..Len(errs') : errs'[i] = "scan"
  <2>1. CASE ScanLine(p)
    BY <1>2, <2>1 DEF ScanLine
  <2>2. CASE SendLine(p)
    BY <1>2, <2>2 DEF SendLine
  <2>3. CASE ScanEnds(p)
    BY <1>2, <2>3 DEF ScanEnds
  <2>4. CASE ScanFails(p)
    BY <1>2, <2>4 DEF ScanFails
  <2>5. CASE PostScanError(p)
    <3>1. Len(errs') = Len(errs) + 1 /\ errs'[Len(errs) + 1] = "scan" /\ Len(errs) \in Nat
      BY <2>5 DEF PostScanError
    <3> QED
      BY <3>1
  <2> QED
    BY <1>2, <2>1, <2>2, <2>3, <2>4, <2>5 DEF Scanner
<1>3. CASE Closer
  <2>1. CASE CloseLines
    BY <2>1 DEF CloseLines
  <2>2. CASE Reap
    BY <2>2 DEF Reap
  <2>3. CASE PostExit
    BY <2>3 DEF PostExit
  <2>4. CASE CloseErrs
    BY <2>4 DEF CloseErrs
  <2> QED
    BY <1>3, <2>1, <2>2, <2>3, <2>4 DEF Closer
<1>4. CASE Process
  BY <1>4 DEF Process, Write, Exit, ReleasePipes
<1>5. CASE Receive \/ Leave
  BY <1>5 DEF Receive, Leave
<1>6. CASE UNCHANGED vars
  BY <1>6 DEF vars
<1> QED
  BY <1>1, <1>2, <1>3, <1>4, <1>5, <1>6 DEF Next, Terminated

----------------------------------------------------------------------------
(* The order of the lines.                                                 *)

\* A line that is sent goes behind those of its pipe.
LEMMA SendOne ==
  ASSUME NEW p \in Pipes, NEW L \in Seq(Lines), NEW g \in Nat, NEW s \in Nat,
         s + 1 <= MaxLines, InOrder(p, L, g, s)
  PROVE  InOrder(p, Append(L, <<p, s + 1>>), g, s + 1)
<1> DEFINE n == Len(L)
           M == Append(L, <<p, s + 1>>)
<1>1. /\ n \in Nat /\ Len(M) = n + 1 /\ M[n + 1][1] = p /\ M[n + 1][2] = s + 1
      /\ \A k \in 1..n : M[k] = L[k]
  OBVIOUS
<1>2. \A k \in 1..n : L[k][2] \in Nat
  BY LineParts
<1> HIDE DEF M, n
<1>3. ASSUME NEW m \in (g + 1)..(s + 1)
      PROVE  \E k \in 1..(n + 1) : M[k][1] = p /\ M[k][2] = m
  <2>1. CASE m = s + 1
    BY <1>1, <2>1
  <2>2. CASE m # s + 1
    <3>1. m \in (g + 1)..s
      BY <2>2
    <3>2. PICK k \in 1..n : L[k][1] = p /\ L[k][2] = m
      BY <3>1 DEF InOrder, n
    <3>3. k \in 1..(n + 1)
      BY <1>1
    <3> QED
      BY <1>1, <3>2, <3>3
  <2> QED
    BY <2>1, <2>2
<1>4. ASSUME NEW k \in 1..(n + 1), M[k][1] = p
      PROVE  g < M[k][2] /\ M[k][2] <= s + 1
  <2>1. CASE k = n + 1
    BY <1>1, <2>1 DEF InOrder
  <2>2. CASE k \in 1..n
    BY <1>1, <1>2, <1>4, <2>2 DEF InOrder, n
  <2> QED
    BY <1>1, <2>1, <2>2
<1>5. ASSUME NEW j \in 1..(n + 1), NEW k \in 1..(n + 1), j < k, M[j][1] = p, M[k][1] = p
      PROVE  M[j][2] < M[k][2]
  <2>1. j \in 1..n
    BY <1>1, <1>5
  <2>2. CASE k = n + 1
    <3>1. L[j][2] <= s
      BY <1>1, <1>5, <2>1 DEF InOrder, n
    <3> QED
      BY <1>1, <1>2, <2>1, <2>2, <3>1
  <2>3. CASE k \in 1..n
    BY <1>1, <1>5, <2>1, <2>3 DEF InOrder, n
  <2> QED
    BY <1>1, <2>2, <2>3
<1>6. InOrder(p, M, g, s + 1)
  <2>1. g <= s + 1
    BY DEF InOrder
  <2> QED
    BY <1>1, <1>3, <1>4, <1>5, <2>1 DEF InOrder
<1> QED
  BY <1>6 DEF M

LEMMA SendAnother ==
  ASSUME NEW p \in Pipes, NEW L \in Seq(Lines), NEW g \in Nat, NEW s \in Int,
         NEW l \in Lines, l[1] # p, InOrder(p, L, g, s)
  PROVE  InOrder(p, Append(L, l), g, s)
<1> DEFINE n == Len(L)
           M == Append(L, l)
<1>1. /\ n \in Nat /\ Len(M) = n + 1 /\ M[n + 1][1] # p
      /\ \A k \in 1..n : M[k] = L[k]
  OBVIOUS
<1> HIDE DEF M, n
<1>2. \A k \in 1..(n + 1) : M[k][1] = p => k \in 1..n /\ L[k][1] = p /\ M[k] = L[k]
  BY <1>1
<1>3. ASSUME NEW m \in (g + 1)..s
      PROVE  \E k \in 1..(n + 1) : M[k][1] = p /\ M[k][2] = m
  <2>1. PICK k \in 1..n : L[k][1] = p /\ L[k][2] = m
    BY DEF InOrder, n
  <2>2. k \in 1..(n + 1)
    BY <1>1
  <2> QED
    BY <1>1, <2>1, <2>2
<1>4. InOrder(p, M, g, s)
  BY <1>1, <1>2, <1>3 DEF InOrder, n
<1> QED
  BY <1>4 DEF M

\* The line at the head of the channel is the next one of its pipe.
LEMMA HeadIsNext ==
  ASSUME NEW L \in Seq(Lines), L # <<>>, NEW g \in Nat, NEW s \in Int,
         InOrder(Head(L)[1], L, g, s)
  PROVE  Head(L)[2] = g + 1
<1>1. Len(L) \in Nat /\ 1 \in 1..Len(L) /\ Head(L) = L[1] /\ L[1] \in Lines
  OBVIOUS
<1>2. g < L[1][2] /\ L[1][2] <= s /\ L[1][2] \in Nat
  BY <1>1, LineParts DEF InOrder
<1>3. g + 1 \in (g + 1)..s
  BY <1>2
<1>4. PICK k \in 1..Len(L) : L[k][1] = L[1][1] /\ L[k][2] = g + 1
  BY <1>1, <1>3 DEF InOrder
<1>5. 1 < k => L[1][2] < L[k][2]
  BY <1>1, <1>4 DEF InOrder
<1> QED
  BY <1>1, <1>2, <1>4, <1>5

\* A line that is received leaves those after it.
LEMMA ReceiveOne ==
  ASSUME NEW p \in Pipes, NEW L \in Seq(Lines), L # <<>>, NEW g \in Nat, NEW s \in Int,
         InOrder(p, L, g, s)
  PROVE  InOrder(p, Tail(L), IF Head(L)[1] = p THEN g + 1 ELSE g, s)
<1> DEFINE n == Len(L)
           M == Tail(L)
           h == IF Head(L)[1] = p THEN g + 1 ELSE g
<1>1. /\ n \in Nat /\ n > 0 /\ Len(M) = n - 1 /\ Head(L) = L[1]
      /\ \A k \in 1..(n - 1) : M[k] = L[k + 1] /\ k + 1 \in 1..n
  OBVIOUS
<1>2. L[1][1] = p => L[1][2] = g + 1
  BY <1>1, HeadIsNext
<1>3. \A k \in 1..n : L[k][2] \in Nat
  BY LineParts
<1>4. h \in Nat /\ (L[1][1] = p => h = g + 1) /\ (L[1][1] # p => h = g)
  BY <1>1
<1> HIDE DEF M, n, h
<1>5. h <= s
  BY <1>1, <1>2, <1>4 DEF InOrder, n
<1>6. ASSUME NEW m \in (h + 1)..s
      PROVE  \E k \in 1..(n - 1) : M[k][1] = p /\ M[k][2] = m
  <2>1. m \in (g + 1)..s
    BY <1>4
  <2>2. PICK k \in 1..n : L[k][1] = p /\ L[k][2] = m
    BY <2>1 DEF InOrder, n
  <2>3. k # 1
    BY <1>2, <1>4, <2>2
  <2>4. k - 1 \in 1..(n - 1) /\ (k - 1) + 1 = k
    BY <1>1, <2>3
  <2> QED
    BY <1>1, <2>2, <2>4
<1>7. ASSUME NEW k \in 1..(n - 1), M[k][1] = p
      PROVE  h < M[k][2] /\ M[k][2] <= s
  <2>1. M[k] = L[k + 1] /\ k + 1 \in 1..n /\ 1 \in 1..n /\ 1 < k + 1
    BY <1>1
  <2>2. g < L[k + 1][2] /\ L[k + 1][2] <= s
    BY <1>7, <2>1 DEF InOrder, n
  <2>3. L[1][1] = p => L[1][2] < L[k + 1][2]
    BY <1>7, <2>1 DEF InOrder, n
  <2> QED
    BY <1>2, <1>4, <2>1, <2>2, <2>3
<1>8. ASSUME NEW j \in 1..(n - 1), NEW k \in 1..(n - 1), j < k, M[j][1] = p, M[k][1] = p
      PROVE  M[j][2] < M[k][2]
  <2>1. /\ M[j] = L[j + 1] /\ j + 1 \in 1..n /\ M[k] = L[k + 1] /\ k + 1 \in 1..n
        /\ j + 1 < k + 1
    BY <1>1, <1>8
  <2> QED
    BY <1>8, <2>1 DEF InOrder, n
<1>9. InOrder(p, M, h, s)
  BY <1>1, <1>5, <1>6, <1>7, <1>8 DEF InOrder
<1> QED
  BY <1>9 DEF M, h

LEMMA SentType ==
  ASSUME TypeOK, OrderInv, NEW p \in Pipes
  PROVE  Sent(p) \in Nat /\ Len(got[p]) \in Nat /\ Sent(p) <= MaxLines
  BY StreamAssumption DEF TypeOK, OrderInv, Sent

LEMMA SendKeepsOrder ==
  ASSUME TypeOK, OrderInv, NEW p \in Pipes, SendLine(p)
  PROVE  OrderInv'
<1>1. /\ UNCHANGED <<got, scanned, written>> /\ scanner[p] = "send"
      /\ lines' = Append(lines, <<p, scanned[p]>>)
      /\ scanner' = [scanner EXCEPT ![p] = "read"]
  BY DEF SendLine, pipeVars
<1>2. /\ scanned[p] \in 1..MaxLines /\ <<p, scanned[p]>> \in Lines
      /\ Sent(p) + 1 = scanned[p] /\ lines \in Seq(Lines)
  BY <1>1 DEF TypeOK, OrderInv, Sent, Lines
<1>3. Sent(p)' = scanned[p] /\ scanner'[p] = "read"
  BY <1>1 DEF TypeOK, Sent
<1>4. \A q \in Pipes \ {p} : Sent(q)' = Sent(q) /\ scanner'[q] = scanner[q]
  BY <1>1 DEF TypeOK, Sent
<1> SUFFICES ASSUME NEW q \in Pipes
             PROVE  /\ scanner'[q] = "send" => scanned[q] > 0
                    /\ InOrder(q, lines', Len(got[q]), Sent(q)')
  BY <1>1 DEF OrderInv
<1>5. InOrder(q, lines, Len(got[q]), Sent(q)) /\ (scanner[q] = "send" => scanned[q] > 0)
  BY DEF OrderInv
<1>6. CASE q = p
  <2>1. InOrder(p, Append(lines, <<p, Sent(p) + 1>>), Len(got[p]), Sent(p) + 1)
    BY <1>2, <1>5, <1>6, SentType, SendOne
  <2> QED
    BY <1>1, <1>2, <1>3, <1>6, <2>1
<1>7. CASE q # p
  <2>1. <<p, scanned[p]>>[1] # q
    BY <1>7
  <2>2. InOrder(q, Append(lines, <<p, scanned[p]>>), Len(got[q]), Sent(q))
    BY <1>2, <1>5, <2>1, SentType, SendAnother
  <2> QED
    BY <1>1, <1>4, <1>5, <1>7, <2>2
<1> QED
  BY <1>6, <1>7

LEMMA ReceiveKeepsOrder ==
  ASSUME TypeOK, OrderInv, Receive
  PROVE  OrderInv'
<1> DEFINE p == Head(lines)[1]
<1>1. /\ UNCHANGED <<scanner, scanned, written>> /\ lines # <<>> /\ lines' = Tail(lines)
      /\ got' = [got EXCEPT ![p] = Append(@, Head(lines)[2])]
  BY DEF Receive, pipeVars
<1>2. Head(lines) \in Lines /\ lines \in Seq(Lines) /\ p \in Pipes
  BY <1>1, LineParts DEF TypeOK
<1>3. Head(lines)[2] = Len(got[p]) + 1
  BY <1>1, <1>2, SentType, HeadIsNext DEF OrderInv
<1> HIDE DEF p
<1>4. got' = [got EXCEPT ![p] = Append(@, Len(got[p]) + 1)]
  BY <1>1, <1>3
<1> SUFFICES ASSUME NEW q \in Pipes
             PROVE  /\ \A i \in 1..Len(got'[q]) : got'[q][i] = i
                    /\ InOrder(q, lines', Len(got'[q]), Sent(q))
  BY <1>1 DEF OrderInv, Sent
<1>5. InOrder(q, Tail(lines), IF p = q THEN Len(got[q]) + 1 ELSE Len(got[q]), Sent(q))
  BY <1>1, <1>2, SentType, ReceiveOne DEF OrderInv, p
<1>6. CASE q = p
  <2>1. got[p] \in Seq(1..MaxLines) /\ got'[p] = Append(got[p], Len(got[p]) + 1)
    BY <1>2, <1>4 DEF TypeOK
  <2>2. /\ Len(got'[p]) = Len(got[p]) + 1 /\ Len(got[p]) \in Nat
        /\ \A i \in 1..Len(got[p]) : got'[p][i] = got[p][i]
        /\ got'[p][Len(got[p]) + 1] = Len(got[p]) + 1
    BY <2>1
  <2>3. \A i \in 1..Len(got[p]) : got[p][i] = i
    BY <1>2 DEF OrderInv
  <2>4. \A i \in 1..Len(got'[p]) : got'[p][i] = i
    BY <2>2, <2>3
  <2> QED
    BY <1>1, <1>5, <1>6, <2>2, <2>4
<1>7. CASE q # p
  <2>1. got'[q] = got[q]
    BY <1>4, <1>7 DEF TypeOK
  <2> QED
    BY <1>1, <1>5, <1>7, <2>1 DEF OrderInv
<1> QED
  BY <1>6, <1>7

LEMMA OrderStep == TypeOK /\ CloserInv /\ OrderInv /\ [Next]_vars => OrderInv'
<1> SUFFICES ASSUME TypeOK, CloserInv, OrderInv, [Next]_vars PROVE OrderInv'
  OBVIOUS
<1>1. CASE \E p \in Pipes : SendLine(p)
  BY <1>1, SendKeepsOrder
<1>2. CASE Receive
  BY <1>2, ReceiveKeepsOrder
<1> USE StreamAssumption DEF TypeOK, pipeVars, chanVars
<1>3. ASSUME UNCHANGED <<lines, got, scanned, scanner>>,
             \A p \in Pipes : written[p] <= written'[p] /\ written'[p] \in Nat
      PROVE  OrderInv'
  <2>1. \A p \in Pipes : Sent(p)' = Sent(p)
    BY <1>3 DEF Sent
  <2> QED
    BY <1>3, <2>1 DEF OrderInv
<1>4. ASSUME UNCHANGED <<lines, got, scanned, written>>,
             \A p \in Pipes : scanner'[p] = "send" <=> scanner[p] = "send"
      PROVE  OrderInv'
  <2>1. \A p \in Pipes : Sent(p)' = Sent(p)
    BY <1>4 DEF Sent
  <2> QED
    BY <1>4, <2>1 DEF OrderInv
<1>5. ASSUME NEW p \in Pipes, ScanLine(p) PROVE OrderInv'
  <2>1. /\ UNCHANGED <<lines, got, written>> /\ scanner[p] = "read" /\ scanned[p] < written[p]
        /\ scanned' = [scanned EXCEPT ![p] = @ + 1]
        /\ scanner' = [scanner EXCEPT ![p] = "send"]
    BY <1>5 DEF ScanLine
  <2>2. \A q \in Pipes : Sent(q)' = Sent(q)
    BY <2>1 DEF Sent
  <2>3. \A q \in Pipes : /\ scanned'[q] <= written'[q]
                         /\ scanner'[q] = "send" => scanned'[q] > 0
    BY <2>1 DEF OrderInv
  <2> QED
    BY <2>1, <2>2, <2>3 DEF OrderInv
<1>6. CASE Start
  BY <1>4, <1>6 DEF Start, CloserInv
<1>7. ASSUME NEW p \in Pipes, ScanEnds(p) \/ ScanFails(p) \/ PostScanError(p) PROVE OrderInv'
  BY <1>4, <1>7 DEF ScanEnds, ScanFails, PostScanError
<1>8. CASE Closer
  BY <1>3, <1>8 DEF Closer, CloseLines, Reap, PostExit, CloseErrs
<1>9. CASE Process
  BY <1>3, <1>9 DEF Process, Write, Exit, ReleasePipes
<1>10. CASE Leave
  BY <1>3, <1>10 DEF Leave
<1>11. CASE UNCHANGED vars
  BY <1>3, <1>11 DEF vars
<1> QED
  BY <1>1, <1>2, <1>5, <1>6, <1>7, <1>8, <1>9, <1>10, <1>11 DEF Next, Scanner, Terminated

----------------------------------------------------------------------------
IInv == TypeOK /\ CloserInv /\ DoneInv /\ OrderInv

LEMMA StreamInvariant == Spec => []IInv
<1>1. Init => IInv
  <2> USE StreamAssumption DEF Init, Zero
  <2>1. ASSUME Init PROVE TypeOK
    <3>1. 0 \in 0..MaxLines /\ 0 <= Cap /\ 0 <= ErrCap
      BY DEF ErrCap
    <3>2. /\ written \in [Pipes -> 0..MaxLines] /\ scanned \in [Pipes -> 0..MaxLines]
          /\ scanner \in [Pipes -> {"off", "read", "send", "error", "done"}]
      BY <2>1, <3>1
    <3>3. lines \in Seq(Lines) /\ Len(lines) <= Cap /\ errs \in Seq({"scan", "exit"}) /\ Len(errs) <= ErrCap
      BY <2>1, <3>1
    <3>4. got \in [Pipes -> Seq(1..MaxLines)]
      BY <2>1
    <3> QED
      BY <2>1, <3>2, <3>3, <3>4 DEF TypeOK
  <2>2. Init => CloserInv
    BY DEF CloserInv, Posted, One, ScannersDone, Pipes
  <2>3. Init => DoneInv
    BY DEF DoneInv
  <2>4. Init => OrderInv
    BY DEF OrderInv, InOrder, Sent
  <2> QED
    BY <2>1, <2>2, <2>3, <2>4 DEF IInv
<1>2. IInv /\ [Next]_vars => IInv'
  BY TypeStep, CloserStep, DoneStep, OrderStep DEF IInv
<1> QED
  BY <1>1, <1>2, PTL DEF Spec

\* Every behaviour of the stream is well typed; no channel exceeds its capacity.
THEOREM StreamTypeCorrect == Spec => []TypeOK
<1>1. IInv => TypeOK
  BY DEF IInv
<1> QED
  BY <1>1, StreamInvariant, PTL

\* exec.go 129-143: nobody sends on a channel that was closed.
THEOREM NeverSendsOnClosed == Spec => []NoSendOnClosed
<1>1. IInv => NoSendOnClosed
  BY DEF IInv, CloserInv, ScannersDone, NoSendOnClosed
<1> QED
  BY <1>1, StreamInvariant, PTL

\* exec.go 122: three places are enough for all the errors there can be.
THEOREM ThreeErrorsAreEnough == Spec => []ErrsNeverBlock
<1>1. IInv => ErrsNeverBlock
  BY DEF IInv, TypeOK, CloserInv, Posted, One, ScannersDone, ErrsNeverBlock, Pipes, ErrCap
<1> QED
  BY <1>1, StreamInvariant, PTL

\* exec.go 124-141: a consumer that sees the end of the lines has got every line
\* of each pipe, in order and once, unless an error tells otherwise.
THEOREM NothingLost == Spec => []EndMeansAll
<1>1. IInv => EndMeansAll
  <2> SUFFICES ASSUME IInv, closed, lines = <<>>, "scan" \notin {errs[i] : i \in 1..Len(errs)},
                      NEW p \in Pipes
               PROVE  got[p] = [i \in 1..written[p] |-> i]
    BY DEF EndMeansAll
  <2>1. scanner[p] = "done" /\ scanned[p] = written[p]
    BY DEF IInv, CloserInv, DoneInv, ScannersDone
  <2>2. Sent(p) = written[p]
    BY <2>1 DEF Sent
  <2>3. written[p] \in Nat /\ got[p] \in Seq(1..MaxLines) /\ Len(got[p]) \in Nat /\ Len(lines) = 0
    BY StreamAssumption DEF IInv, TypeOK
  <2>4. /\ InOrder(p, lines, Len(got[p]), written[p])
        /\ \A i \in 1..Len(got[p]) : got[p][i] = i
    BY <2>2 DEF IInv, OrderInv
  <2>5. Len(got[p]) = written[p]
    BY <2>3, <2>4 DEF InOrder
  <2> QED
    BY <2>3, <2>4, <2>5
<1> QED
  BY <1>1, StreamInvariant, PTL

----------------------------------------------------------------------------
(* The stream implements LineFeed.                                         *)

LEMMA OldestStays ==
  ASSUME NEW S, NEW s \in Seq(S), NEW e, s # <<>>
  PROVE  Append(s, e)[1] = s[1] /\ Append(s, e) # <<>>
  OBVIOUS

LEMMA StepKeepsFeed ==
  ASSUME IInv, [Next]_vars
  PROVE  [Feed!FeedNext]_(Feed!feedVars)
<1> USE StreamAssumption DEF IInv, TypeOK, Feed!FeedNext, Feed!FeedStep, Feed!feedVars, chanVars
<1>1. CASE Start
  BY <1>1 DEF Start, Feed!OpenFeed
<1>2. ASSUME NEW p \in Pipes, SendLine(p) PROVE Feed!FeedNext
  <2>1. proc # "off" /\ ~closed /\ <<p, scanned[p]>> \in Lines
    BY <1>2 DEF SendLine, CloserInv, ScannersDone, OrderInv, Lines
  <2> QED
    BY <1>2, <2>1 DEF SendLine, Feed!Emit
<1>3. ASSUME NEW p \in Pipes, PostScanError(p) PROVE [Feed!FeedNext]_(Feed!feedVars)
  <2>1. proc # "off" /\ ~closed
    BY <1>3 DEF PostScanError, CloserInv, ScannersDone
  <2>2. CASE errs = <<>>
    BY <1>3, <2>1, <2>2 DEF PostScanError, Feed!PostError
  <2>3. CASE errs # <<>>
    <3>1. errs'[1] = errs[1] /\ errs' # <<>>
      BY <1>3, <2>3, OldestStays DEF PostScanError
    <3> QED
      BY <1>3, <2>3, <3>1 DEF PostScanError
  <2> QED
    BY <2>2, <2>3
<1>4. CASE CloseLines
  <2>1. proc \in Feed!Ended \/ (errs # <<>> /\ errs[1] = "scan")
    <3>1. CASE \E i \in 1..Len(errs) : errs[i] = "scan"
      BY <1>4, <3>1 DEF CloseLines, CloserInv
    <3>2. CASE ~\E i \in 1..Len(errs) : errs[i] = "scan"
      <4>1. ~held
        BY <1>4, <3>2 DEF CloseLines, DoneInv, ScannersDone, Pipes
      <4> QED
        BY <1>4, <4>1 DEF CloseLines, CloserInv, Feed!Ended
    <3> QED
      BY <3>1, <3>2
  <2> QED
    BY <1>4, <2>1 DEF CloseLines, CloserInv, Feed!CloseFeed
<1>5. CASE PostExit
  <2>1. closed /\ proc \in {"failed", "killed"}
    BY <1>5 DEF PostExit, CloserInv
  <2>2. CASE errs = <<>>
    BY <1>5, <2>1, <2>2 DEF PostExit, Feed!PostError
  <2>3. CASE errs # <<>>
    <3>1. errs'[1] = errs[1] /\ errs' # <<>>
      BY <1>5, <2>3, OldestStays DEF PostExit
    <3> QED
      BY <1>5, <2>3, <3>1 DEF PostExit
  <2> QED
    BY <2>2, <2>3
<1>6. ASSUME NEW how \in {"exited", "failed", "killed"}, Exit(how) PROVE Feed!FeedNext
  BY <1>6 DEF Exit, Feed!ProcEnds
<1>7. CASE Receive
  BY <1>7 DEF Receive, Feed!Take
<1>8. CASE UNCHANGED <<proc, lines, closed, errs>>
  BY <1>8
<1>9. ASSUME NEW p \in Pipes, ScanLine(p) \/ ScanEnds(p) \/ ScanFails(p) \/ Write(p)
      PROVE  UNCHANGED <<proc, lines, closed, errs>>
  BY <1>9 DEF ScanLine, ScanEnds, ScanFails, Write
<1>10. Reap \/ CloseErrs \/ ReleasePipes \/ Leave \/ UNCHANGED vars
         => UNCHANGED <<proc, lines, closed, errs>>
  BY DEF Reap, CloseErrs, ReleasePipes, Leave, vars
<1> QED
  BY <1>1, <1>2, <1>3, <1>4, <1>5, <1>6, <1>7, <1>8, <1>9, <1>10
  DEF Next, Scanner, Closer, Process, Terminated

\* exec.go 108-148: startStream keeps the promise the backends rely on.
THEOREM StreamKeepsFeed == Spec => FeedKept
<1>1. Init => Feed!FeedInit
  BY DEF Init, Feed!FeedInit
<1>2. IInv /\ [Next]_vars => [Feed!FeedNext]_(Feed!feedVars)
  BY StepKeepsFeed
<1> QED
  BY <1>1, <1>2, StreamInvariant, PTL DEF Spec, FeedKept, Feed!FeedSpec
=============================================================================
