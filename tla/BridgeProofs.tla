---------------------------- MODULE BridgeProofs ----------------------------
(***************************************************************************)
(* Theorems about Bridge, for any lines an agent may print and any number  *)
(* of them, of messages, and of lines the agent may be ahead.              *)
(***************************************************************************)
EXTENDS Bridge, WellFoundedInduction, TLAPS

(***************************************************************************)
(* Types.                                                                  *)
(***************************************************************************)
LEMMA AfterMarkType ==
  ASSUME NEW line \in Lines, Marked(line)
  PROVE  AfterMark(line) \in Seq(Tokens)
<1> DEFINE i == CHOOSE k \in DOMAIN line : line[k] = "mark"
<1>1. line \in Seq(Tokens)
  BY LinesAssumption
<1>2. i \in DOMAIN line
  BY DEF Marked
<1>3. SubSeq(line, i + 1, Len(line)) \in Seq(Tokens)
  <2> HIDE DEF i
  <2> QED BY <1>1, <1>2
<1> QED
  BY <1>3 DEF AfterMark

\* What a scanned line is, and where it was.
LEMMA ScanFacts ==
  ASSUME TypeOK, NEW line \in Lines, Scan(line)
  PROVE  /\ line \in Seq(Tokens)
         /\ seen + 1 \in 1..Len(wrote) /\ wrote[seen + 1] = line
         /\ seen' \in 0..Len(wrote) /\ seen' = seen + 1
         /\ agent # "none"
BY LinesAssumption DEF TypeOK, Scan, Ahead, InTurn

LEMMA Nothing ==
  /\ <<>> \in Seq(Lines \cup {Overlong}) /\ <<>> \in Seq(Tokens) /\ <<>> \in Seq(Span)
  /\ 0 \in 0..Len(<<>>) /\ {} \subseteq 1..0
OBVIOUS

LEMMA InitType == Init => TypeOK
<1> SUFFICES ASSUME Init PROVE TypeOK
  OBVIOUS
<1>1. inbox \in 0..sent /\ sent \in Nat
  BY DEF Init
<1> QED
  BY <1>1, Nothing DEF Init, TypeOK, InTurn

LEMMA NextType ==
  ASSUME TypeOK, [Next]_vars
  PROVE  TypeOK'
<1> USE DEF vars, session, outside, capture, turn, process
<1>1. CASE Send
  BY <1>1 DEF Send, TypeOK, InTurn
<1>2. CASE Leave
  BY <1>2 DEF Leave, TypeOK, InTurn
<1>3. CASE Read
  BY <1>3 DEF Read, TypeOK, InTurn
<1>4. CASE Hangup
  BY <1>4 DEF Hangup, TypeOK, InTurn
<1>5. CASE AgentExits
  BY <1>5 DEF AgentExits, TypeOK, InTurn
<1>6. CASE Deadline
  BY <1>6 DEF Deadline, TypeOK, InTurn
<1>7. CASE Kill
  BY <1>7 DEF Kill, TypeOK, InTurn
<1>8. ASSUME NEW line \in Lines \cup {Overlong}, AgentPrints(line)
      PROVE  TypeOK'
  <2>1. wrote' \in Seq(Lines \cup {Overlong}) /\ Len(wrote') = Len(wrote) + 1
    BY <1>8 DEF AgentPrints, TypeOK
  <2> QED
    BY <1>8, <2>1 DEF AgentPrints, TypeOK, InTurn
<1>9. CASE StartAgent
  BY <1>9, Nothing DEF StartAgent, TypeOK, InTurn
<1>10. CASE StartFails
  BY <1>10 DEF StartFails, EndTurn, Frame, TypeOK, InTurn
<1>11. CASE ScanEnds
  BY <1>11 DEF ScanEnds, TypeOK, InTurn
<1>12. CASE Wait
  BY <1>12 DEF Wait, EndTurn, Frame, TypeOK, InTurn
<1>13. CASE Dispatch
  <2>1. PICK how \in Nat \cup {"garbled", "refused", "performed"} :
          /\ how \in {"garbled", "refused", "performed"}
          /\ spans' = Append(spans, [from |-> from, to |-> seen, how |-> how])
    BY <1>13 DEF Dispatch
  <2>2. [from |-> from, to |-> seen, how |-> how] \in Span
    BY <2>1 DEF Span, TypeOK
  <2>3. spans' \in Seq(Span)
    BY <2>1, <2>2 DEF TypeOK
  <2>4. /\ UNCHANGED <<session, outside, ctx, process, seen, relayed>>
        /\ pc = "dispatch" /\ pc' = "scan" /\ link' \in {link, "down"}
        /\ capturing' = FALSE /\ pending' = <<>> /\ from' = 0
    BY <1>13 DEF Dispatch, Frame
  <2> QED
    BY <2>3, <2>4, Nothing DEF TypeOK, InTurn
<1>14. ASSUME NEW line \in Lines, BeginCapture(line)
       PROVE  TypeOK'
  <2>1. Scan(line) /\ Marked(line) /\ capturing' = TRUE /\ from' = seen + 1
    BY <1>14 DEF BeginCapture
  <2>2. pending' \in Seq(Tokens) /\ pc' \in {"scan", "dispatch"}
    BY <1>14, AfterMarkType DEF BeginCapture, Capture
  <2> QED
    BY <1>14, <2>1, <2>2, ScanFacts DEF BeginCapture, TypeOK, InTurn
<1>15. ASSUME NEW line \in Lines, GoOnCapturing(line)
       PROVE  TypeOK'
  <2>1. Scan(line) /\ capturing
    BY <1>15 DEF GoOnCapturing
  <2>2. pending' \in Seq(Tokens) /\ pc' \in {"scan", "dispatch"}
    BY <1>15, <2>1, ScanFacts DEF GoOnCapturing, Capture, TypeOK
  <2> QED
    BY <1>15, <2>1, <2>2, ScanFacts DEF GoOnCapturing, TypeOK, InTurn
<1>16. ASSUME NEW line \in Lines, SkipBlank(line) \/ Relay(line) \/ RelayFails(line)
       PROVE  TypeOK'
  <2>1. Scan(line) /\ ~capturing
    BY <1>16 DEF SkipBlank, Relay, RelayFails, Plain
  <2>2. relayed' \subseteq 1..(seen + 1)
    <3>1. seen \in Nat /\ relayed \subseteq 1..seen
      BY DEF TypeOK
    <3>2. relayed' \subseteq relayed \cup {seen + 1}
      BY <1>16 DEF SkipBlank, Relay, RelayFails
    <3> QED
      BY <3>1, <3>2
  <2> QED
    BY <1>16, <2>1, <2>2, ScanFacts DEF SkipBlank, Relay, RelayFails, Scan, TypeOK, InTurn
<1>17. CASE UNCHANGED vars
  BY <1>17 DEF TypeOK, InTurn
<1> QED
  BY <1>1, <1>2, <1>3, <1>4, <1>5, <1>6, <1>7, <1>8, <1>9, <1>10, <1>11, <1>12, <1>13, <1>14,
     <1>15, <1>16, <1>17 DEF Next, Turn

\* The session's state has the shape the code gives it, a turn has a process to wait
\* for, and only a captured directive is dispatched.
THEOREM TypeCorrect == Spec => []TypeOK
<1>1. Init => TypeOK
  BY InitType
<1>2. TypeOK /\ [Next]_vars => TypeOK'
  BY NextType
<1> QED
  BY <1>1, <1>2, PTL DEF Spec

(***************************************************************************)
(* No agent outlives its turn.                                             *)
(***************************************************************************)

\* Every way out of a turn goes through Wait, so no agent is running between turns
\* or after the session.
THEOREM AlwaysNoAgentLeft == Spec => []NoAgentLeft
<1> USE DEF NoAgentLeft, InTurn, vars, session, outside, capture, turn, process
<1>1. Init => NoAgentLeft
  BY DEF Init
<1>2. NoAgentLeft /\ [Next]_vars => NoAgentLeft'
  <2> SUFFICES ASSUME NoAgentLeft, [Next]_vars
               PROVE  NoAgentLeft'
    OBVIOUS
  <2>1. CASE Turn
    <3>1. CASE StartAgent \/ StartFails \/ ScanEnds \/ Dispatch
      BY <3>1 DEF StartAgent, StartFails, ScanEnds, Dispatch, EndTurn
    <3>2. CASE Wait
      BY <3>2 DEF Wait, Exited, EndTurn
    <3>3. ASSUME NEW line \in Lines,
                 \/ BeginCapture(line) \/ GoOnCapturing(line) \/ SkipBlank(line)
                 \/ Relay(line) \/ RelayFails(line)
          PROVE  NoAgentLeft'
      BY <3>3 DEF BeginCapture, GoOnCapturing, SkipBlank, Relay, RelayFails, Plain, Scan, Capture
    <3> QED
      BY <2>1, <3>1, <3>2, <3>3 DEF Turn
  <2>2. CASE Send \/ Leave \/ Read \/ Hangup \/ AgentExits \/ Deadline \/ Kill
    BY <2>2 DEF Send, Leave, Read, Hangup, AgentExits, Deadline, Kill
  <2>3. ASSUME NEW line \in Lines \cup {Overlong}, AgentPrints(line)
        PROVE  NoAgentLeft'
    BY <2>3 DEF AgentPrints
  <2> QED
    BY <2>1, <2>2, <2>3 DEF Next
<1> QED
  BY <1>1, <1>2, PTL DEF Spec

(***************************************************************************)
(* An answer that ended well is whole.                                     *)
(***************************************************************************)

\* What the loop leaves behind when nothing failed: everything read from a process
\* that is gone, or a line that stopped the scanner.
LoopEnded ==
  \/ seen = Len(wrote) /\ agent # "running"
  \/ \E k \in DOMAIN wrote : wrote[k] = Overlong

AnswerInv ==
  /\ TypeOK /\ NoAgentLeft
  /\ pc = "wait" /\ link = "up" => LoopEnded
  /\ pc = "read" /\ result = "ok" /\ link = "up" => LoopEnded

LEMMA AnswerStep ==
  ASSUME AnswerInv, [Next]_vars, TypeOK', NoAgentLeft'
  PROVE  AnswerInv'
<1> USE DEF AnswerInv, LoopEnded, InTurn, vars, session, outside, capture, turn, process
<1>1. CASE StartAgent
  BY <1>1 DEF StartAgent
<1>2. CASE StartFails
  BY <1>2 DEF StartFails, EndTurn
<1>3. CASE ScanEnds
  <2>1. seen < Len(wrote) => seen + 1 \in DOMAIN wrote
    BY DEF TypeOK
  <2> QED
    BY <1>3, <2>1 DEF ScanEnds, AtEnd, Ahead
<1>4. CASE Wait
  BY <1>4 DEF Wait, EndTurn, Frame
<1>5. CASE Dispatch
  BY <1>5 DEF Dispatch
<1>6. ASSUME NEW line \in Lines,
             \/ BeginCapture(line) \/ GoOnCapturing(line) \/ SkipBlank(line)
             \/ Relay(line) \/ RelayFails(line)
      PROVE  AnswerInv'
  BY <1>6 DEF BeginCapture, GoOnCapturing, SkipBlank, Relay, RelayFails, Plain, Scan, Capture
<1>7. CASE Send \/ Leave \/ Hangup \/ Deadline
  BY <1>7 DEF Send, Leave, Hangup, Deadline
<1>8. CASE Read
  BY <1>8 DEF Read
<1>9. CASE AgentExits \/ Kill
  BY <1>9 DEF AgentExits, Kill, NoAgentLeft
<1>10. ASSUME NEW line \in Lines \cup {Overlong}, AgentPrints(line)
       PROVE  AnswerInv'
  <2>1. /\ DOMAIN wrote \subseteq DOMAIN wrote'
        /\ \A k \in DOMAIN wrote : wrote'[k] = wrote[k]
    BY <1>10 DEF AgentPrints, TypeOK
  <2> QED
    BY <1>10, <2>1 DEF AgentPrints, NoAgentLeft
<1>11. CASE UNCHANGED vars
  BY <1>11
<1> QED
  BY <1>1, <1>2, <1>3, <1>4, <1>5, <1>6, <1>7, <1>8, <1>9, <1>10, <1>11 DEF Next, Turn

\* As long as the browser takes what it is sent and no line is too long for the
\* scanner, a turn that is reported as good has dealt with all the agent printed.
THEOREM AlwaysAnswerIsWhole == Spec => []AnswerIsWhole
<1>1. Init => AnswerInv
  BY InitType DEF Init, AnswerInv, NoAgentLeft
<1>2. AnswerInv /\ TypeOK' /\ NoAgentLeft' /\ [Next]_vars => AnswerInv'
  BY AnswerStep
<1>3. AnswerInv => AnswerIsWhole
  BY DEF AnswerInv, LoopEnded, AnswerIsWhole
<1> QED
  BY <1>1, <1>2, <1>3, TypeCorrect, AlwaysNoAgentLeft, PTL DEF Spec

(***************************************************************************)
(* Each line is dealt with once.                                           *)
(***************************************************************************)

\* Where directives lie among the lines scanned.
SpansInPlace ==
  /\ \A i \in DOMAIN spans : spans[i].from \in 1..spans[i].to /\ spans[i].to <= seen
  /\ \A i, j \in DOMAIN spans : i < j => spans[i].to < spans[j].from
  /\ capturing => /\ from \in 1..seen /\ runner
                  /\ \A i \in DOMAIN spans : spans[i].to < from
  /\ spans # <<>> => runner

\* As in EachLineOnce, but a line is lost only when the loop is left over it.
Settled(k) ==
  IF Captured(k) \/ Directed(k) THEN k \notin relayed
  ELSE /\ runner => ~Marked(wrote[k])
       /\ \/ k \in relayed
          \/ wrote[k] = <<>>
          \/ k = seen /\ link = "down" /\ pc \notin {"scan", "dispatch"}

LinesInv == TypeOK /\ SpansInPlace /\ \A k \in 1..seen : Settled(k)

\* Steps that deal with no line.
LEMMA Untouched ==
  ASSUME LinesInv, TypeOK', UNCHANGED <<runner, turn>>,
         Len(wrote) <= Len(wrote'), \A k \in DOMAIN wrote : wrote'[k] = wrote[k],
         link = "down" => link' = "down",
         pc \notin {"scan", "dispatch"} => pc' \notin {"scan", "dispatch"}
  PROVE  LinesInv'
<1> USE DEF turn
<1>1. SpansInPlace'
  BY DEF LinesInv, SpansInPlace
<1>2. ASSUME NEW k \in 1..seen
      PROVE  Settled(k)'
  <2>1. wrote'[k] = wrote[k]
    BY DEF LinesInv, TypeOK
  <2>2. Captured(k)' = Captured(k) /\ Directed(k)' = Directed(k)
    BY DEF Captured, Directed
  <2> QED
    BY <2>1, <2>2 DEF LinesInv, Settled
<1> QED
  BY <1>1, <1>2 DEF LinesInv

\* Steps that scan a line: those before it stay as they are.
LEMMA Scanned ==
  ASSUME LinesInv, TypeOK', NEW line \in Lines, Scan(line),
         UNCHANGED <<runner, wrote, spans>>,
         relayed' \subseteq relayed \cup {seen + 1}, relayed \subseteq relayed',
         SpansInPlace', \A k : k = seen + 1 => Settled(k)',
         \A k \in 1..seen : Captured(k)' = Captured(k)
  PROVE  LinesInv'
<1>1. seen \in Nat /\ seen' = seen + 1 /\ pc = "scan"
  BY DEF LinesInv, TypeOK, Scan
<1>2. ASSUME NEW k \in 1..seen
      PROVE  Settled(k)'
  <2>1. k \in relayed' <=> k \in relayed
    BY <1>1
  <2>2. Directed(k)' = Directed(k)
    BY DEF Directed
  <2>3. Settled(k)
    BY DEF LinesInv
  <2> QED
    BY <1>1, <2>1, <2>2, <2>3 DEF Settled
<1> QED
  BY <1>1, <1>2 DEF LinesInv

LEMMA LinesStep ==
  ASSUME LinesInv, [Next]_vars, TypeOK'
  PROVE  LinesInv'
<1> USE DEF vars, session, outside, capture, turn, process
<1>0. /\ TypeOK /\ SpansInPlace /\ seen \in Nat /\ relayed \subseteq 1..seen
      /\ spans \in Seq(Span)
      /\ \A i \in DOMAIN spans : spans[i].from \in Nat /\ spans[i].to \in Nat
  <2>1. spans \in Seq(Span) /\ \A i \in DOMAIN spans : spans[i] \in Span
    BY DEF LinesInv, TypeOK
  <2> QED
    BY <2>1 DEF LinesInv, TypeOK, Span
<1>1. CASE StartAgent
  BY <1>1 DEF StartAgent, LinesInv, SpansInPlace
<1>2. CASE Dispatch
  <2>1. PICK how : spans' = Append(spans, [from |-> from, to |-> seen, how |-> how])
    BY <1>2 DEF Dispatch
  <2> DEFINE n == Len(spans) + 1
  <2>2. /\ DOMAIN spans' = 1..n /\ spans'[n].from = from /\ spans'[n].to = seen
        /\ DOMAIN spans = 1..Len(spans) /\ Len(spans) \in Nat
        /\ \A i \in DOMAIN spans : spans'[i] = spans[i]
    BY <1>0, <2>1
  <2>3. /\ capturing /\ capturing' = FALSE /\ pc = "dispatch"
        /\ UNCHANGED <<seen, relayed, runner, wrote>>
    BY <1>0, <1>2 DEF Dispatch, TypeOK
  <2>4. from \in 1..seen /\ runner /\ \A i \in DOMAIN spans : spans[i].to < from
    BY <1>0, <2>3 DEF SpansInPlace
  <2>5. SpansInPlace'
    BY <1>0, <2>2, <2>3, <2>4 DEF SpansInPlace
  <2>6. ASSUME NEW k \in 1..seen
        PROVE  Settled(k)'
    <3>1. Directed(k)' <=> Directed(k) \/ Captured(k)
      BY <2>2, <2>3 DEF Directed, Captured
    <3>2. ~Captured(k)'
      BY <2>3 DEF Captured
    <3>3. Settled(k)
      BY DEF LinesInv
    <3> QED
      BY <2>3, <3>1, <3>2, <3>3 DEF Settled
  <2> QED
    BY <2>3, <2>5, <2>6 DEF LinesInv
<1>3. ASSUME NEW line \in Lines, BeginCapture(line)
      PROVE  LinesInv'
  <2>1. /\ Scan(line) /\ runner /\ ~capturing /\ capturing' = TRUE
        /\ from' = seen + 1 /\ seen' = seen + 1
        /\ UNCHANGED <<runner, wrote, spans, relayed>>
    BY <1>3 DEF BeginCapture, Scan
  <2>2. SpansInPlace'
    BY <1>0, <2>1 DEF SpansInPlace
  <2>3. ASSUME NEW k, k = seen + 1 PROVE Settled(k)'
    BY <1>0, <2>1, <2>3 DEF Settled, Captured
  <2>4. \A k \in 1..seen : Captured(k)' = Captured(k)
    BY <1>0, <2>1 DEF Captured
  <2> QED
    BY <2>1, <2>2, <2>3, <2>4, Scanned
<1>4. ASSUME NEW line \in Lines, GoOnCapturing(line)
      PROVE  LinesInv'
  <2>1. /\ Scan(line) /\ capturing /\ seen' = seen + 1
        /\ UNCHANGED <<runner, wrote, spans, relayed, capturing, from>>
    BY <1>4 DEF GoOnCapturing, Scan
  <2>2. SpansInPlace'
    BY <1>0, <2>1 DEF SpansInPlace
  <2>3. ASSUME NEW k, k = seen + 1 PROVE Settled(k)'
    BY <1>0, <2>1, <2>3 DEF Settled, Captured, SpansInPlace
  <2>4. \A k \in 1..seen : Captured(k)' = Captured(k)
    BY <1>0, <2>1 DEF Captured
  <2> QED
    BY <2>1, <2>2, <2>3, <2>4, Scanned
<1>5. ASSUME NEW line \in Lines, SkipBlank(line) \/ Relay(line) \/ RelayFails(line)
      PROVE  LinesInv'
  <2>1. /\ Scan(line) /\ ~capturing /\ ~(runner /\ Marked(line)) /\ seen' = seen + 1
        /\ wrote[seen + 1] = line
        /\ UNCHANGED <<runner, wrote, spans, capturing, from>>
    BY <1>5, ScanFacts, <1>0 DEF SkipBlank, Relay, RelayFails, Plain, Scan
  <2>2. SpansInPlace'
    BY <1>0, <2>1 DEF SpansInPlace
  <2>3. relayed' \subseteq relayed \cup {seen + 1} /\ relayed \subseteq relayed'
    BY <1>5 DEF SkipBlank, Relay, RelayFails
  <2>4. \A k : k = seen + 1 => ~Captured(k)' /\ ~Directed(k)'
    BY <1>0, <2>1 DEF Captured, Directed, SpansInPlace
  <2>5. \/ seen + 1 \in relayed'
        \/ line = <<>>
        \/ link' = "down" /\ pc' = "wait"
    BY <1>5 DEF SkipBlank, Relay, RelayFails
  <2>6. ASSUME NEW k, k = seen + 1 PROVE Settled(k)'
    BY <2>1, <2>4, <2>5, <2>6 DEF Settled
  <2>7. \A k \in 1..seen : Captured(k)' = Captured(k)
    BY <2>1 DEF Captured
  <2> QED
    BY <2>1, <2>2, <2>3, <2>6, <2>7, Scanned
<1>6. ASSUME NEW line \in Lines \cup {Overlong}, AgentPrints(line)
      PROVE  LinesInv'
  <2>1. Len(wrote) <= Len(wrote') /\ \A k \in DOMAIN wrote : wrote'[k] = wrote[k]
    BY <1>0, <1>6 DEF AgentPrints, TypeOK
  <2> QED
    BY <1>6, <2>1, Untouched DEF AgentPrints
<1>7. ASSUME \/ Send \/ Leave \/ Read \/ Hangup \/ AgentExits \/ Deadline \/ Kill
             \/ StartFails \/ ScanEnds \/ Wait \/ UNCHANGED vars
      PROVE  LinesInv'
  <2>1. /\ UNCHANGED <<runner, turn, wrote>>
        /\ link = "down" => link' = "down"
        /\ pc \notin {"scan", "dispatch"} => pc' \notin {"scan", "dispatch"}
    BY <1>7 DEF Send, Leave, Read, Hangup, AgentExits, Deadline, Kill, StartFails, ScanEnds,
                Wait, EndTurn, Frame
  <2>2. Len(wrote) <= Len(wrote') /\ \A k \in DOMAIN wrote : wrote'[k] = wrote[k]
    BY <1>0, <2>1 DEF TypeOK
  <2> QED
    BY <2>1, <2>2, Untouched
<1> QED
  BY <1>1, <1>2, <1>3, <1>4, <1>5, <1>6, <1>7 DEF Next, Turn

\* The inductive invariant of scanning.
LEMMA AlwaysLinesInv == Spec => []LinesInv
<1>1. Init => LinesInv
  BY InitType DEF Init, LinesInv, SpansInPlace
<1>2. LinesInv /\ TypeOK' /\ [Next]_vars => LinesInv'
  BY LinesStep
<1> QED
  BY <1>1, <1>2, TypeCorrect, PTL DEF Spec

\* However the agent cuts its directives into lines, mixes them with talk, or leaves
\* one open, each line has one fate: part of one directive, shown to the browser,
\* blank, or the one whose sending failed.
THEOREM AlwaysEachLineOnce == Spec => []EachLineOnce
<1>1. LinesInv => EachLineOnce
  <2> SUFFICES ASSUME LinesInv PROVE EachLineOnce
    OBVIOUS
  <2>1. \A k \in 1..seen : Captured(k) \/ Directed(k) => runner
    BY DEF LinesInv, SpansInPlace, Captured, Directed
  <2> QED
    BY <2>1 DEF LinesInv, SpansInPlace, Settled, EachLineOnce
<1> QED
  BY <1>1, AlwaysLinesInv, PTL

-----------------------------------------------------------------------------
(* The text of a directive, by induction over its lines *)

\* Induction in the form the provers can use: a set of numbers has a least one.
LEMMA LeastNumber ==
  ASSUME NEW S \in SUBSET Nat, S # {}
  PROVE  \E n \in S : \A m \in S : n <= m
<1>1. IsWellFoundedOn(OpToRel(<, Nat), Nat)
  BY NatLessThanWellFounded
<1>2. \E n \in S : \A m \in S : ~(<<m, n>> \in OpToRel(<, Nat))
  BY <1>1, WFMin
<1>3. \A n, m \in S : ~(<<m, n>> \in OpToRel(<, Nat)) => n <= m
  BY DEF OpToRel
<1> QED
  BY <1>2, <1>3

\* What the definition of TextOf asks of its function.
IsText(f, lines, a, b) ==
  f = [k \in a..b |-> IF k = a THEN AfterMark(lines[a]) ELSE f[k - 1] \o lines[k]]

LEMMA TextExists ==
  ASSUME NEW lines, NEW a \in Nat, NEW b \in Nat, a <= b
  PROVE  \E f : IsText(f, lines, a, b)
<1> DEFINE Bad == {n \in Nat : a <= n /\ ~\E f : IsText(f, lines, a, n)}
<1>1. SUFFICES ASSUME Bad # {} PROVE FALSE
  OBVIOUS
<1>2. PICK n \in Bad : \A m \in Bad : n <= m
  <2>1. Bad \in SUBSET Nat
    OBVIOUS
  <2> QED
    BY <1>1, <2>1, LeastNumber
<1>3. CASE n = a
  <2> DEFINE f == [k \in a..n |-> AfterMark(lines[a])]
  <2>1. IsText(f, lines, a, n)
    BY <1>3 DEF IsText
  <2> QED
    BY <1>2, <2>1
<1>4. CASE n # a
  <2>1. n - 1 \in Nat /\ a <= n - 1 /\ n - 1 \notin Bad
    BY <1>2, <1>4
  <2>2. PICK f : IsText(f, lines, a, n - 1)
    BY <2>1
  <2> DEFINE g == [k \in a..n |-> IF k = n THEN f[n - 1] \o lines[n] ELSE f[k]]
  <2>3. ASSUME NEW k \in a..n
        PROVE  g[k] = IF k = a THEN AfterMark(lines[a]) ELSE g[k - 1] \o lines[k]
    <3>1. CASE k = n
      <4>1. g[k] = f[n - 1] \o lines[n]
        BY <3>1
      <4>2. n - 1 \in a..n /\ n - 1 # n
        BY <2>1
      <4>3. g[n - 1] = f[n - 1]
        BY <4>2
      <4> QED
        BY <1>4, <3>1, <4>1, <4>3
    <3>2. CASE k # n
      <4>1. k \in a..(n - 1) /\ g[k] = f[k] /\ (k # a => g[k - 1] = f[k - 1])
        BY <1>2, <2>1, <3>2
      <4>2. f[k] = IF k = a THEN AfterMark(lines[a]) ELSE f[k - 1] \o lines[k]
        BY <2>2, <4>1 DEF IsText
      <4> QED
        BY <4>1, <4>2
    <3> QED
      BY <3>1, <3>2
  <2>4. IsText(g, lines, a, n)
    BY <2>3 DEF IsText
  <2> QED
    BY <1>2, <2>4
<1> QED
  BY <1>3, <1>4

LEMMA TextUnique ==
  ASSUME NEW lines, NEW a \in Nat, NEW b \in Nat,
         NEW f, IsText(f, lines, a, b), NEW g, IsText(g, lines, a, b)
  PROVE  \A k \in a..b : f[k] = g[k]
<1> DEFINE Bad == {k \in a..b : f[k] # g[k]}
<1>1. SUFFICES ASSUME Bad # {} PROVE FALSE
  OBVIOUS
<1>2. PICK n \in Bad : \A m \in Bad : n <= m
  <2>1. Bad \in SUBSET Nat
    OBVIOUS
  <2> QED
    BY <1>1, <2>1, LeastNumber
<1>3. n \in a..b /\ n \in Int
  BY <1>2
<1>4. /\ f[n] = IF n = a THEN AfterMark(lines[a]) ELSE f[n - 1] \o lines[n]
      /\ g[n] = IF n = a THEN AfterMark(lines[a]) ELSE g[n - 1] \o lines[n]
  BY <1>3 DEF IsText
<1>5. n # a => n - 1 \in a..b /\ n - 1 \notin Bad
  BY <1>2, <1>3
<1>6. n # a => f[n - 1] = g[n - 1]
  BY <1>5
<1> QED
  BY <1>2, <1>4, <1>6

LEMMA TextOfIsText ==
  ASSUME NEW lines, NEW a \in Nat, NEW b \in Nat, a <= b
  PROVE  \E f : IsText(f, lines, a, b) /\ TextOf(lines, a, b) = f[b]
<1> DEFINE t == CHOOSE f : f = [k \in a..b |-> IF k = a THEN AfterMark(lines[a]) ELSE f[k - 1] \o lines[k]]
<1>1. \E f : f = [k \in a..b |-> IF k = a THEN AfterMark(lines[a]) ELSE f[k - 1] \o lines[k]]
  BY TextExists DEF IsText
<1>2. t = [k \in a..b |-> IF k = a THEN AfterMark(lines[a]) ELSE t[k - 1] \o lines[k]]
  BY <1>1, Zenon
<1>3. TextOf(lines, a, b) = t[b]
  BY Zenon DEF TextOf
<1>4. IsText(t, lines, a, b)
  BY <1>2, Zenon DEF IsText
<1> QED
  BY <1>3, <1>4, Zenon

LEMMA TextOfSame ==
  ASSUME NEW x, NEW y, NEW a \in Nat, NEW b \in Nat, a <= b, \A k \in a..b : x[k] = y[k]
  PROVE  TextOf(x, a, b) = TextOf(y, a, b)
<1>1. PICK f : IsText(f, x, a, b) /\ TextOf(x, a, b) = f[b]
  BY TextOfIsText
<1>2. PICK g : IsText(g, y, a, b) /\ TextOf(y, a, b) = g[b]
  BY TextOfIsText
<1>3. a \in a..b /\ b \in a..b
  OBVIOUS
<1>4. IsText(f, y, a, b)
  BY <1>1, <1>3 DEF IsText
<1>5. \A k \in a..b : f[k] = g[k]
  BY <1>2, <1>4, TextUnique
<1> QED
  BY <1>1, <1>2, <1>3, <1>5

LEMMA TextOfOne ==
  ASSUME NEW lines, NEW a \in Nat
  PROVE  TextOf(lines, a, a) = AfterMark(lines[a])
<1>1. PICK f : IsText(f, lines, a, a) /\ TextOf(lines, a, a) = f[a]
  BY TextOfIsText
<1>2. a \in a..a
  OBVIOUS
<1> QED
  BY <1>1, <1>2 DEF IsText

LEMMA TextOfMore ==
  ASSUME NEW lines, NEW a \in Nat, NEW b \in Nat, a <= b
  PROVE  TextOf(lines, a, b + 1) = TextOf(lines, a, b) \o lines[b + 1]
<1>1. PICK f : IsText(f, lines, a, b + 1) /\ TextOf(lines, a, b + 1) = f[b + 1]
  BY TextOfIsText
<1>2. PICK g : IsText(g, lines, a, b) /\ TextOf(lines, a, b) = g[b]
  BY TextOfIsText
<1> DEFINE h == [k \in a..b |-> f[k]]
<1>3. ASSUME NEW k \in a..b
      PROVE  h[k] = IF k = a THEN AfterMark(lines[a]) ELSE h[k - 1] \o lines[k]
  <2>1. k \in a..(b + 1) /\ (k # a => k - 1 \in a..b)
    OBVIOUS
  <2>2. f[k] = IF k = a THEN AfterMark(lines[a]) ELSE f[k - 1] \o lines[k]
    BY <1>1, <2>1 DEF IsText
  <2> QED
    BY <2>1, <2>2
<1>4. IsText(h, lines, a, b)
  BY <1>3 DEF IsText
<1>5. b \in a..b /\ b + 1 \in a..(b + 1) /\ b + 1 # a /\ (b + 1) - 1 = b
  OBVIOUS
<1>6. h[b] = g[b]
  <2> HIDE DEF h
  <2>1. \A k \in a..b : h[k] = g[k]
    BY <1>2, <1>4, TextUnique
  <2> QED
    BY <1>5, <2>1
<1>7. f[b + 1] = f[(b + 1) - 1] \o lines[b + 1]
  BY <1>1, <1>5 DEF IsText
<1> QED
  BY <1>1, <1>2, <1>5, <1>6, <1>7

(***************************************************************************)
(* Directives are whole.                                                   *)
(***************************************************************************)

\* What is being captured is the text of the lines since the mark, and nothing up to
\* the line before has completed its object.
WholeInv ==
  /\ \A i \in DOMAIN spans : IsDirective(spans[i].from, spans[i].to)
  /\ capturing =>
       /\ Marked(wrote[from])
       /\ pending = TextOf(wrote, from, seen)
       /\ HasObject(pending) <=> pc = "dispatch"
       /\ \A k \in from..(seen - 1) : ~HasObject(TextOf(wrote, from, k))

\* What the agent prints later is no part of a directive read.
LEMMA DirectiveStays ==
  ASSUME NEW a \in Nat, NEW b \in Nat, a <= b, \A k \in a..b : wrote'[k] = wrote[k],
         IsDirective(a, b)
  PROVE  IsDirective(a, b)'
<1>1. a \in a..b /\ b \in a..b
  OBVIOUS
<1>2. ASSUME NEW k \in a..b PROVE TextOf(wrote', a, k) = TextOf(wrote, a, k)
  <2>1. k \in Nat /\ a <= k /\ \A m \in a..k : wrote'[m] = wrote[m]
    OBVIOUS
  <2> QED
    BY <2>1, TextOfSame
<1>3. Marked(wrote'[a]) /\ HasObject(TextOf(wrote', a, b))
  BY <1>1, <1>2 DEF IsDirective
<1>4. ASSUME NEW k \in a..(b - 1) PROVE ~HasObject(TextOf(wrote', a, k))
  <2>1. k \in a..b
    OBVIOUS
  <2>2. TextOf(wrote', a, k) = TextOf(wrote, a, k)
    BY <1>2, <2>1
  <2> QED
    BY <2>2 DEF IsDirective
<1> QED
  BY <1>3, <1>4 DEF IsDirective

\* Steps that scan no line and dispatch nothing.
LEMMA WholeUntouched ==
  ASSUME LinesInv, WholeInv, UNCHANGED turn, \A k \in DOMAIN wrote : wrote'[k] = wrote[k],
         capturing => (pc' = "dispatch" <=> pc = "dispatch")
  PROVE  WholeInv'
<1> USE DEF turn
<1>1. DOMAIN wrote = 1..Len(wrote) /\ seen \in 0..Len(wrote) /\ Len(wrote) \in Nat
  BY DEF LinesInv, TypeOK
<1>2. ASSUME NEW i \in DOMAIN spans PROVE IsDirective(spans[i].from, spans[i].to)'
  <2>1. PICK a \in Nat, b \in Nat : a = spans[i].from /\ b = spans[i].to /\ 1 <= a /\ a <= b /\ b <= seen
    <3>1. spans[i].from \in 1..spans[i].to /\ spans[i].to <= seen
      BY DEF LinesInv, SpansInPlace
    <3>2. spans[i] \in Span
      BY DEF LinesInv, TypeOK
    <3> QED
      BY <3>1, <3>2 DEF Span
  <2>2. \A k \in a..b : wrote'[k] = wrote[k]
    BY <1>1, <2>1
  <2>3. IsDirective(a, b)
    BY <2>1 DEF WholeInv
  <2>4. IsDirective(a, b)'
    BY <2>1, <2>2, <2>3, DirectiveStays
  <2>5. spans'[i].from = a /\ spans'[i].to = b
    BY <2>1
  <2> QED
    BY <2>4, <2>5 DEF IsDirective
<1>3. ASSUME capturing
      PROVE  /\ Marked(wrote'[from]) /\ pending = TextOf(wrote', from, seen)
             /\ \A k \in from..(seen - 1) : ~HasObject(TextOf(wrote', from, k))
  <2>1. from \in 1..seen
    BY <1>3 DEF LinesInv, SpansInPlace
  <2>2. ASSUME NEW k \in from..seen PROVE TextOf(wrote', from, k) = TextOf(wrote, from, k)
    <3>1. from \in Nat /\ k \in Nat /\ from <= k /\ \A m \in from..k : wrote'[m] = wrote[m]
      BY <1>1, <2>1
    <3> QED
      BY <3>1, TextOfSame
  <2>3. wrote'[from] = wrote[from] /\ seen \in from..seen
    BY <1>1, <2>1
  <2>4. \A k \in from..(seen - 1) : k \in from..seen
    BY <1>1, <2>1
  <2> QED
    BY <1>3, <2>2, <2>3, <2>4 DEF WholeInv
<1> QED
  BY <1>2, <1>3 DEF WholeInv

LEMMA WholeStep ==
  ASSUME LinesInv, WholeInv, [Next]_vars
  PROVE  WholeInv'
<1> USE DEF vars, session, outside, capture, turn, process
<1>0. /\ TypeOK /\ seen \in Nat /\ spans \in Seq(Span)
      /\ pc = "dispatch" => capturing
  BY DEF LinesInv, TypeOK
<1>1. CASE StartAgent
  BY <1>1 DEF StartAgent, WholeInv
<1>2. CASE Dispatch
  <2>1. PICK how : spans' = Append(spans, [from |-> from, to |-> seen, how |-> how])
    BY <1>2 DEF Dispatch
  <2> DEFINE n == Len(spans) + 1
  <2>2. /\ DOMAIN spans' = 1..n /\ spans'[n].from = from /\ spans'[n].to = seen
        /\ DOMAIN spans = 1..Len(spans) /\ Len(spans) \in Nat
        /\ \A i \in DOMAIN spans : spans'[i] = spans[i]
    BY <1>0, <2>1
  <2>3. capturing /\ capturing' = FALSE /\ pc = "dispatch" /\ UNCHANGED wrote
    BY <1>0, <1>2 DEF Dispatch
  <2>4. IsDirective(from, seen)
    BY <2>3 DEF WholeInv, IsDirective
  <2>5. \A a, b : IsDirective(a, b)' <=> IsDirective(a, b)
    BY <2>3 DEF IsDirective
  <2>6. ASSUME NEW i \in DOMAIN spans' PROVE IsDirective(spans'[i].from, spans'[i].to)
    <3>1. CASE i = n
      BY <2>2, <2>4, <3>1
    <3>2. CASE i # n
      <4>1. i \in DOMAIN spans /\ spans'[i] = spans[i]
        BY <2>2, <3>2
      <4> QED
        BY <4>1 DEF WholeInv
    <3> QED
      BY <3>1, <3>2
  <2> QED
    BY <2>3, <2>6 DEF WholeInv, IsDirective
<1>3. ASSUME NEW line \in Lines, BeginCapture(line) PROVE WholeInv'
  <2>1. /\ Scan(line) /\ Marked(line) /\ capturing' = TRUE /\ from' = seen + 1
        /\ pending' = <<>> \o AfterMark(line)
        /\ pc' = IF HasObject(<<>> \o AfterMark(line)) THEN "dispatch" ELSE "scan"
        /\ UNCHANGED <<wrote, spans>>
    BY <1>3 DEF BeginCapture, Capture
  <2>2. seen' = seen + 1 /\ wrote[seen + 1] = line
    BY <1>0, <2>1, ScanFacts
  <2>3. AfterMark(line) \in Seq(Tokens)
    BY <2>1, AfterMarkType
  <2>4. pending' = AfterMark(line)
    BY <2>1, <2>3
  <2>5. HasObject(pending') <=> pc' = "dispatch"
    BY <2>1
  <2>6. TextOf(wrote, seen + 1, seen + 1) = AfterMark(line)
    BY <1>0, <2>2, TextOfOne
  <2>7. \A k \in from'..(seen' - 1) : FALSE
    BY <1>0, <2>1, <2>2
  <2>8. \A i \in DOMAIN spans : IsDirective(spans[i].from, spans[i].to)'
    BY <2>1 DEF WholeInv, IsDirective
  <2> QED
    BY <2>1, <2>2, <2>4, <2>5, <2>6, <2>7, <2>8 DEF WholeInv
<1>4. ASSUME NEW line \in Lines, GoOnCapturing(line) PROVE WholeInv'
  <2>1. /\ Scan(line) /\ capturing /\ pc = "scan"
        /\ pending' = pending \o line
        /\ pc' = IF HasObject(pending \o line) THEN "dispatch" ELSE "scan"
        /\ UNCHANGED <<wrote, spans, capturing, from>>
    BY <1>4 DEF GoOnCapturing, Capture, Scan
  <2>2. seen' = seen + 1 /\ wrote[seen + 1] = line
    BY <1>0, <2>1, ScanFacts
  <2>3. from \in 1..seen
    BY <2>1 DEF LinesInv, SpansInPlace
  <2>4. pending = TextOf(wrote, from, seen) /\ ~HasObject(TextOf(wrote, from, seen))
    BY <2>1 DEF WholeInv
  <2>5. TextOf(wrote, from, seen + 1) = TextOf(wrote, from, seen) \o wrote[seen + 1]
    <3>1. from \in Nat /\ from <= seen
      BY <1>0, <2>3
    <3> QED
      BY <1>0, <3>1, TextOfMore
  <2>6. pending' = TextOf(wrote, from, seen')
    BY <2>1, <2>2, <2>4, <2>5
  <2>7. ASSUME NEW k \in from..(seen' - 1) PROVE ~HasObject(TextOf(wrote, from, k))
    <3>1. CASE k = seen
      BY <2>4, <3>1
    <3>2. CASE k # seen
      <4>1. k \in from..(seen - 1)
        BY <1>0, <2>2, <2>3, <3>2
      <4> QED
        BY <2>1, <4>1 DEF WholeInv
    <3> QED
      BY <3>1, <3>2
  <2>8. \A i \in DOMAIN spans : IsDirective(spans[i].from, spans[i].to)'
    BY <2>1 DEF WholeInv, IsDirective
  <2>9. Marked(wrote[from]) /\ (HasObject(pending') <=> pc' = "dispatch")
    BY <2>1 DEF WholeInv
  <2> QED
    BY <2>1, <2>6, <2>7, <2>8, <2>9 DEF WholeInv
<1>5. ASSUME NEW line \in Lines, SkipBlank(line) \/ Relay(line) \/ RelayFails(line)
      PROVE  WholeInv'
  <2>1. ~capturing /\ UNCHANGED <<wrote, spans, capturing>>
    BY <1>5 DEF SkipBlank, Relay, RelayFails, Plain
  <2> QED
    BY <2>1 DEF WholeInv, IsDirective
<1>6. ASSUME NEW line \in Lines \cup {Overlong}, AgentPrints(line)
      PROVE  WholeInv'
  <2>1. \A k \in DOMAIN wrote : wrote'[k] = wrote[k]
    BY <1>0, <1>6 DEF AgentPrints, TypeOK
  <2> QED
    BY <1>6, <2>1, WholeUntouched DEF AgentPrints
<1>7. ASSUME \/ Send \/ Leave \/ Read \/ Hangup \/ AgentExits \/ Deadline \/ Kill
             \/ StartFails \/ ScanEnds \/ Wait \/ UNCHANGED vars
      PROVE  WholeInv'
  <2>1. UNCHANGED <<turn, wrote>> /\ (pc' = "dispatch" <=> pc = "dispatch")
    BY <1>7 DEF Send, Leave, Read, Hangup, AgentExits, Deadline, Kill, StartFails, ScanEnds,
                Wait, EndTurn
  <2> QED
    BY <2>1, WholeUntouched
<1> QED
  BY <1>1, <1>2, <1>3, <1>4, <1>5, <1>6, <1>7 DEF Next, Turn

\* However a directive is cut into lines, what is dispatched runs from a mark to the
\* first line that completes its object, and no sooner is it dispatched.
THEOREM AlwaysDirectivesAreWhole == Spec => []DirectivesAreWhole
<1>1. Init => WholeInv
  BY DEF Init, WholeInv
<1>2. LinesInv /\ WholeInv /\ [Next]_vars => WholeInv'
  BY WholeStep
<1>3. WholeInv => DirectivesAreWhole
  BY DEF WholeInv, DirectivesAreWhole
<1> QED
  BY <1>1, <1>2, <1>3, AlwaysLinesInv, PTL DEF Spec

=============================================================================
