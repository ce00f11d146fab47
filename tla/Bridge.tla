------------------------------- MODULE Bridge -------------------------------
(***************************************************************************)
(* One chat session of bridge/bridge.go: a socket to a browser, and for    *)
(* each message one turn, which runs the agent as a child process, relays  *)
(* the lines it prints and carries out the directives among them.          *)
(*                                                                         *)
(* The browser, the agent, the clock and the goroutine of os/exec that     *)
(* kills the agent once the turn's context is done act between any two      *)
(* steps of the session's own goroutine.                                   *)
(*                                                                         *)
(* A line is the sequence of what the bridge looks for in it, after        *)
(* cleanLine: "mark" is the first SCAVA-ACTION in it, "open" and "close"   *)
(* are the braces, "quoted" is a closing brace inside a JSON string, and   *)
(* "word" is anything else, another SCAVA-ACTION included.                 *)
(***************************************************************************)
EXTENDS Naturals, Sequences, FiniteSets

CONSTANTS
  Lines,         \* the lines the agent may print
  Overlong,      \* a line longer than maxLineBytes
  PipeRoom,      \* bound: lines the agent can be ahead of the bridge
  MaxLines,      \* bound: lines the agent prints in a turn
  MaxMessages    \* bound: messages the browser sends

Tokens == {"mark", "open", "close", "quoted", "word"}

ASSUME LinesAssumption == Lines \subseteq Seq(Tokens) /\ Overlong \notin Seq(Tokens)
ASSUME OneMarkAssumption ==
  \A line \in Lines : \A i, k \in DOMAIN line : line[i] = "mark" /\ line[k] = "mark" => i = k
ASSUME BoundsAssumption == PipeRoom \in Nat /\ MaxLines \in Nat /\ MaxMessages \in Nat

VARIABLES
  runner,       \* was the bridge given an intent runner?
  browser,      \* "open", or "left" once the browser has closed its end
  link,         \* "up", or "down" once a write has failed: no later one succeeds
  sent, inbox,  \* messages sent, and those of them not read yet
  pc,           \* where the session's goroutine is
  resume,       \* does the next turn continue the conversation?
  result,       \* how the last turn ended
  ctx,          \* the turn's context: "live" or "done"
  agent,        \* the child process
  wrote,        \* the lines the agent has printed in this turn
  seen,         \* how many of them have been scanned; the others are in the pipe
  capturing, pending, from,  \* a directive being read: its text, its first line
  spans,        \* the directives read in this turn, and what became of them
  relayed       \* the lines of this turn sent on to the browser

session == <<runner, resume, result>>
outside == <<browser, sent, inbox>>
capture == <<capturing, pending, from>>
turn == <<capturing, pending, from, spans, relayed, seen>>
process == <<agent, wrote>>
vars == <<session, outside, link, pc, ctx, process, turn>>

Span == [from : Nat, to : Nat, how : {"garbled", "refused", "performed"}]
InTurn == pc \in {"scan", "dispatch", "wait"}

\* Whenever the bridge is in a turn an agent has been started, so that Wait finds a
\* process; what is scanned has been printed; a directive is dispatched only
\* while one is captured.
TypeOK ==
  /\ runner \in BOOLEAN /\ resume \in BOOLEAN
  /\ result \in {"none", "ok", "error"}
  /\ browser \in {"open", "left"} /\ link \in {"up", "down"}
  /\ sent \in Nat /\ inbox \in 0..sent
  /\ pc \in {"read", "start", "scan", "dispatch", "wait", "gone"}
  /\ ctx \in {"live", "done"}
  /\ agent \in {"none", "running", "ok", "failed"}
  /\ InTurn => agent # "none"
  /\ wrote \in Seq(Lines \cup {Overlong}) /\ seen \in 0..Len(wrote)
  /\ capturing \in BOOLEAN /\ pending \in Seq(Tokens) /\ from \in Nat
  /\ pc = "dispatch" => capturing
  /\ spans \in Seq(Span) /\ relayed \subseteq 1..seen

Init ==
  /\ runner \in BOOLEAN /\ resume = FALSE /\ result = "none"
  /\ browser = "open" /\ link = "up" /\ sent = 0 /\ inbox = 0
  /\ pc = "read" /\ ctx = "done" /\ agent = "none"
  /\ wrote = <<>> /\ seen = 0
  /\ capturing = FALSE /\ pending = <<>> /\ from = 0
  /\ spans = <<>> /\ relayed = {}

-----------------------------------------------------------------------------
(* Directives *)

Marked(line) == \E i \in DOMAIN line : line[i] = "mark"

\* line[i+len("SCAVA-ACTION"):]
AfterMark(line) ==
  LET i == CHOOSE i \in DOMAIN line : line[i] = "mark" IN SubSeq(line, i + 1, Len(line))

Count(text, i, j, tokens) == Cardinality({k \in i..j : text[k] \in tokens})

FirstOpen(text, i) ==
  i \in DOMAIN text /\ text[i] = "open" /\ \A k \in 1..(i - 1) : text[k] # "open"

\* From the first brace on, i..j are as many closing braces as opening ones: to
\* extractJSON a brace in a string is like any other.
Balanced(text, i, j) ==
  /\ FirstOpen(text, i) /\ j \in i..Len(text)
  /\ Count(text, i, j, {"open"}) = Count(text, i, j, {"close", "quoted"})

HasObject(text) == \E i, j \in DOMAIN text : Balanced(text, i, j)

ExtractJSON(text) ==
  LET i == CHOOSE i \in DOMAIN text : FirstOpen(text, i)
      j == CHOOSE j \in DOMAIN text :
             Balanced(text, i, j) /\ \A k \in 1..(j - 1) : ~Balanced(text, i, k)
  IN SubSeq(text, i, j)

\* json.Unmarshal, which knows strings.
Parses(text) == Count(text, 1, Len(text), {"open"}) = Count(text, 1, Len(text), {"close"})

-----------------------------------------------------------------------------
(* The surroundings *)

Send ==
  /\ browser = "open" /\ sent < MaxMessages
  /\ sent' = sent + 1 /\ inbox' = inbox + 1
  /\ UNCHANGED <<session, browser, link, pc, ctx, process, turn>>

Leave ==
  /\ browser = "open" /\ browser' = "left"
  /\ UNCHANGED <<session, sent, inbox, link, pc, ctx, process, turn>>

AgentPrints(line) ==
  /\ agent = "running"
  /\ Len(wrote) < MaxLines /\ Len(wrote) - seen < PipeRoom
  /\ wrote' = Append(wrote, line)
  /\ UNCHANGED <<session, outside, link, pc, ctx, agent, turn>>

AgentExits ==
  /\ agent = "running" /\ agent' \in {"ok", "failed"}
  /\ UNCHANGED <<session, outside, link, pc, ctx, wrote, turn>>

\* turnTimeout
Deadline ==
  /\ InTurn /\ ctx = "live" /\ ctx' = "done"
  /\ UNCHANGED <<session, outside, link, pc, process, turn>>

\* mutant: the context is looked at between two lines only
KillWhileScanning ==
  /\ pc = "scan" /\ ctx = "done" /\ agent = "running" /\ agent' = "failed"
  /\ UNCHANGED <<session, outside, link, pc, ctx, wrote, turn>>

\* exec.CommandContext
Kill ==
  /\ ctx = "done" /\ agent = "running" /\ agent' = "failed"
  /\ UNCHANGED <<session, outside, link, pc, ctx, wrote, turn>>

-----------------------------------------------------------------------------
(* HandleWS *)

\* The next message: of a blank one nothing comes.  What a browser sent before it
\* left may still be read, or not.
Read ==
  /\ pc = "read" /\ inbox > 0 /\ inbox' = inbox - 1 /\ pc' \in {"read", "start"}
  /\ UNCHANGED <<session, browser, sent, link, ctx, process, turn>>

Hangup ==
  /\ pc = "read" /\ browser = "left" /\ pc' = "gone"
  /\ UNCHANGED <<session, outside, link, ctx, process, turn>>

\* A frame whose failure is not looked at.
Frame == link' \in {link, "down"}

\* runTurn returns; the error, if any, and "done" go to the browser.
EndTurn(how) ==
  /\ result' = how /\ resume' = (resume \/ how = "ok")
  /\ pc' = "read" /\ ctx' = "done"
  /\ Frame
  /\ UNCHANGED <<runner, outside, process, turn>>

-----------------------------------------------------------------------------
(* runTurn *)

StartAgent ==
  /\ pc = "start" /\ pc' = "scan" /\ ctx' = "live" /\ agent' = "running"
  /\ wrote' = <<>> /\ seen' = 0 /\ spans' = <<>> /\ relayed' = {}
  /\ capturing' = FALSE /\ pending' = <<>> /\ from' = 0
  /\ UNCHANGED <<session, outside, link>>

StartFails == pc = "start" /\ EndTurn("error")

\* The line that the next Scan returns.
Ahead == wrote[seen + 1]

Scan(line) ==
  /\ pc = "scan" /\ seen < Len(wrote) /\ Ahead = line /\ line # Overlong
  /\ seen' = seen + 1

\* mutant: only the newest line is searched for the object
CaptureLast(text, line) == pending' = line /\ pc' = IF HasObject(line) THEN "dispatch" ELSE "scan"

Capture(text, line) ==
  /\ pending' = text \o line
  /\ pc' = IF HasObject(text \o line) THEN "dispatch" ELSE "scan"

BeginCapture(line) ==
  /\ Scan(line) /\ runner /\ ~capturing /\ Marked(line)
  /\ capturing' = TRUE /\ from' = seen + 1
  /\ Capture(<<>>, AfterMark(line))
  /\ UNCHANGED <<session, outside, link, ctx, process, spans, relayed>>

GoOnCapturing(line) ==
  /\ Scan(line) /\ capturing
  /\ Capture(pending, line)
  /\ UNCHANGED <<session, outside, link, ctx, process, capturing, from, spans, relayed>>

\* mutant: no continue while a directive is being read
PlainToo(line) == Scan(line) /\ ~(runner /\ Marked(line))

Plain(line) == Scan(line) /\ ~capturing /\ ~(runner /\ Marked(line))

SkipBlank(line) ==
  /\ Plain(line) /\ line = <<>>
  /\ UNCHANGED <<session, outside, link, pc, ctx, process, capture, spans, relayed>>

Relay(line) ==
  /\ Plain(line) /\ line # <<>> /\ link = "up"
  /\ relayed' = relayed \cup {seen + 1}
  /\ UNCHANGED <<session, outside, link, pc, ctx, process, capture, spans>>

\* The browser is gone, or takes nothing for writeWait: cancel() and break.
RelayFails(line) ==
  /\ Plain(line) /\ line # <<>>
  /\ link' = "down" /\ ctx' = "done" /\ pc' = "wait"
  /\ UNCHANGED <<session, outside, process, capture, spans, relayed>>

\* mutant: the loop ends with the process
AtEndOfProcess == agent # "running"

\* The last writer has closed the pipe and it is empty, or the scanner gives up.
AtEnd ==
  \/ seen = Len(wrote) /\ agent # "running"
  \/ seen < Len(wrote) /\ Ahead = Overlong

ScanEnds ==
  /\ pc = "scan" /\ AtEnd /\ pc' = "wait"
  /\ UNCHANGED <<session, outside, link, ctx, process, turn>>

\* Store calls made with a context that is done fail.  A directive that is no JSON for
\* another reason than its braces is among those refused.
Dispatch ==
  /\ pc = "dispatch" /\ pc' = "scan"
  /\ \E how \in IF Parses(ExtractJSON(pending))
                THEN {"refused"} \cup {h \in {"performed"} : ctx = "live"} ELSE {"garbled"} :
       spans' = Append(spans, [from |-> from, to |-> seen, how |-> how])
  /\ capturing' = FALSE /\ pending' = <<>> /\ from' = 0
  /\ Frame
  /\ UNCHANGED <<session, outside, ctx, process, seen, relayed>>

\* mutant: a cancelled turn does not wait for the agent
WaitUnlessDone == agent # "running" \/ ctx = "done"

Exited == agent # "running"

\* cmd.Wait: a process that ended well just before the kill may count as killed.
Wait ==
  /\ pc = "wait" /\ Exited
  /\ \/ agent = "ok" /\ EndTurn("ok")
     \/ (agent # "ok" \/ ctx = "done") /\ EndTurn("error")

-----------------------------------------------------------------------------
Turn ==
  \/ StartAgent \/ StartFails \/ ScanEnds \/ Dispatch \/ Wait
  \/ \E line \in Lines : \/ BeginCapture(line) \/ GoOnCapturing(line) \/ SkipBlank(line)
                         \/ Relay(line) \/ RelayFails(line)

Next ==
  \/ Send \/ Leave \/ Read \/ Hangup \/ Turn \/ AgentExits \/ Deadline \/ Kill
  \/ \E line \in Lines \cup {Overlong} : AgentPrints(line)

Spec == Init /\ [][Next]_vars

\* The goroutine goes on, the timer fires, and the kill reaches the agent.  Of the
\* browser and the agent nothing is assumed.
FairSpec == Spec /\ WF_vars(Turn) /\ WF_vars(Deadline) /\ WF_vars(Kill)

-----------------------------------------------------------------------------
(* Safety *)

\* The text of a directive that begins in line a, up to the end of line b.
TextOf(lines, a, b) ==
  LET text[k \in a..b] == IF k = a THEN AfterMark(lines[a]) ELSE text[k - 1] \o lines[k]
  IN text[b]

IsDirective(a, b) ==
  /\ Marked(wrote[a]) /\ HasObject(TextOf(wrote, a, b))
  /\ \A k \in a..(b - 1) : ~HasObject(TextOf(wrote, a, k))

\* Whatever way a directive is cut into lines, it runs from a mark to the first line
\* that completes its object, and is dispatched then and not before.
DirectivesAreWhole ==
  /\ \A i \in DOMAIN spans : IsDirective(spans[i].from, spans[i].to)
  /\ capturing => /\ Marked(wrote[from])
                  /\ HasObject(TextOf(wrote, from, seen)) <=> pc = "dispatch"

Captured(k) == capturing /\ k \in from..seen
Directed(k) == \E i \in DOMAIN spans : k \in spans[i].from..spans[i].to

\* Directives are dispatched once and in order, and no line of one reaches the
\* browser; every other line does, but for blank ones and the one whose sending
\* failed, and then none with a mark if there is a runner to act on it.
EachLineOnce ==
  /\ \A i, j \in DOMAIN spans : i < j => spans[i].to < spans[j].from
  /\ \A k \in 1..seen :
       IF Captured(k) \/ Directed(k) THEN runner /\ k \notin relayed
       ELSE /\ runner => ~Marked(wrote[k])
            /\ \/ k \in relayed
               \/ wrote[k] = <<>>
               \/ k = seen /\ link = "down"

\* A turn that ends well, with the browser there, has dealt with every line the
\* agent printed, though the agent may end long before its lines are read.
AnswerIsWhole ==
  pc = "read" /\ result = "ok" /\ link = "up" =>
    seen = Len(wrote) \/ \E k \in DOMAIN wrote : wrote[k] = Overlong

\* Between turns, and when the session is over, no agent of it is left running,
\* however the turn ended.
NoAgentLeft == agent = "running" => InTurn

\* A turn ends: the agent may hang, block on a pipe nobody reads any more, or go on
\* without an end, and the browser may stop reading.
TurnsEnd == pc = "start" \/ InTurn ~> pc = "read"

-----------------------------------------------------------------------------
(* What the comments in the code say and the code does not keep. *)

\* bridge.go:55-58: "The agent emits a single SCAVA-ACTION line that the bridge
\* parses and routes through the service layer".
SingleLinesAreParsed ==
  \A i \in DOMAIN spans :
    LET line == wrote[spans[i].from]
    IN spans[i].from = spans[i].to /\ Parses(AfterMark(line)) => spans[i].how # "garbled"

=============================================================================
