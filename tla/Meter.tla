-------------------------------- MODULE Meter --------------------------------
(***************************************************************************)
(* The progress meter of a phase (internal/progress/progress.go): every    *)
(* worker counts on it, whichever notices that a line is due draws it, a   *)
(* goroutine raises the flag on a timer, and the owner of the phase ends   *)
(* the meter once its workers are done.  A step is one use of an atomic or *)
(* of the lock.  A line is the count, the total and whether it is the last;*)
(* title, clock and padding are left out.                                  *)
(***************************************************************************)
EXTENDS Integers, Sequences, FiniteSets, FiniteSetsExt, SequencesExt

CONSTANTS
  Steppers, \* the workers of the phase
  Owner,    \* the goroutine that starts and finishes the meter
  Phases,   \* the phases to consider
  NoDrawer, \* no holder of the lock
  NoLine    \* nothing drawn yet

\* A call is Step, or Advance to a number.
StepCall == 0

\* A phase: the calls each worker makes, those its owner makes after them, the
\* total the meter starts with, and whether it is delayed.
Phase == [calls : [Steppers \cup {Owner} -> Seq(Nat)], total : Nat, delayed : BOOLEAN]

ASSUME MeterAssumption ==
  /\ IsFiniteSet(Steppers) /\ Owner \notin Steppers /\ Phases \subseteq Phase
  /\ NoDrawer \notin Steppers \cup {Owner}

Callers == Steppers \cup {Owner}

VARIABLES
  phase,   \* the phase
  calls,   \* the calls each has still to make
  count,   \* Meter.count
  total,   \* Meter.total
  pct,     \* Meter.pct
  quiet,   \* Meter.quiet
  due,     \* Meter.due
  shown,   \* Meter.shown
  mu,      \* who holds Meter.mu
  stop,    \* Meter.stop is closed
  ticker,  \* where the goroutine of the meter is
  at,      \* where each caller is
  reg,     \* what each has in hand: a count n and a total t
  line     \* the last line drawn

meter == <<count, total, pct, quiet, due, shown, mu, stop>>
meterVars == <<phase, calls, meter, ticker, at, reg, line>>

Line == [n : Nat, total : Nat, pct : Int, end : BOOLEAN]

MeterTypeOK ==
  /\ phase \in Phases /\ calls \in [Callers -> Seq(Nat)]
  /\ count \in Nat /\ total \in Nat /\ pct \in -1..100
  /\ quiet \in BOOLEAN /\ due \in BOOLEAN /\ shown \in BOOLEAN /\ stop \in BOOLEAN
  /\ mu \in Callers \cup {NoDrawer}
  /\ ticker \in {"delay", "first", "ticking", "gone"}
  /\ at \in [Callers -> {"idle", "swap", "report", "raise", "weigh", "due", "clear",
                          "lock", "draw", "raiseDraw", "write", "wait", "over"}]
  /\ reg \in [Callers -> [n : Nat, t : Nat]]
  /\ line \in Line \cup {NoLine}

\* Mistake: the first line waits for the goroutine to raise the flag.
DueAtStart_Not(p) == FALSE

DueAtStart(p) == ~p.delayed

\* start
MeterInit ==
  /\ phase \in Phases /\ calls = phase.calls
  /\ count = 0 /\ total = phase.total /\ pct = -1
  /\ quiet = phase.delayed /\ due = DueAtStart(phase) /\ shown = FALSE
  /\ mu = NoDrawer /\ stop = FALSE
  /\ ticker = IF phase.delayed THEN "delay" ELSE "first"
  /\ at = [c \in Callers |-> "idle"]
  /\ reg = [c \in Callers |-> [n |-> 0, t |-> 0]]
  /\ line = NoLine

(***************************************************************************)
(* run.                                                                    *)
(***************************************************************************)

\* The delay is up.
DelayOver ==
  /\ ticker = "delay" /\ quiet' = FALSE /\ ticker' = "first"
  /\ UNCHANGED <<phase, calls, count, total, pct, due, shown, mu, stop, at, reg, line>>

\* The flag is raised, at first and then by every tick.
Tick ==
  /\ ticker \in {"first", "ticking"}
  /\ due' = TRUE /\ ticker' = "ticking"
  /\ UNCHANGED <<phase, calls, count, total, pct, quiet, shown, mu, stop, at, reg, line>>

\* Mistake: only the delay is cut short.
TickerStops_Delay ==
  /\ stop /\ ticker = "delay" /\ ticker' = "gone"
  /\ UNCHANGED <<phase, calls, meter, at, reg, line>>

TickerStops ==
  /\ stop /\ ticker \in {"delay", "ticking"} /\ ticker' = "gone"
  /\ UNCHANGED <<phase, calls, meter, at, reg, line>>

(***************************************************************************)
(* Step and Advance.                                                       *)
(***************************************************************************)

Goes(c, where) == at' = [at EXCEPT ![c] = where]
Holds(c, n) == reg' = [reg EXCEPT ![c] = [n |-> n, t |-> @.t]]
Sees(c, t) == reg' = [reg EXCEPT ![c] = [n |-> @.n, t |-> t]]

\* The owner comes after its workers.
MayCall(c) ==
  /\ at[c] = "idle" /\ calls[c] # << >>
  /\ c = Owner => \A w \in Steppers : at[w] = "idle" /\ calls[w] = << >>

\* Step counts, and Advance looks at the count.
Call(c) ==
  LET n == Head(calls[c])
  IN  /\ MayCall(c)
      /\ \/ /\ n = StepCall
            /\ count' = count + 1 /\ Holds(c, count + 1) /\ Goes(c, "report")
            /\ calls' = [calls EXCEPT ![c] = Tail(@)]
         \/ /\ n # StepCall /\ count >= n
            /\ Holds(c, count) /\ Goes(c, "report")
            /\ calls' = [calls EXCEPT ![c] = Tail(@)] /\ UNCHANGED count
         \/ /\ n # StepCall /\ count < n
            /\ Holds(c, count) /\ Goes(c, "swap") /\ UNCHANGED <<calls, count>>
      /\ UNCHANGED <<phase, total, pct, quiet, due, shown, mu, stop, ticker, line>>

\* Mistake: the count is stored without a look at what it has become.
Swap_Store(c) ==
  /\ at[c] = "swap"
  /\ count' = Head(calls[c]) /\ Holds(c, count') /\ Goes(c, "report")
  /\ calls' = [calls EXCEPT ![c] = Tail(@)]
  /\ UNCHANGED <<phase, total, pct, quiet, due, shown, mu, stop, ticker, line>>

\* Advance swaps the count it saw for its own, or looks again.
Swap(c) ==
  LET n == Head(calls[c])
  IN  /\ at[c] = "swap"
      /\ \/ /\ count = reg[c].n
            /\ count' = n /\ Holds(c, n) /\ Goes(c, "report")
            /\ calls' = [calls EXCEPT ![c] = Tail(@)]
         \/ /\ count # reg[c].n
            /\ Goes(c, "idle") /\ UNCHANGED <<calls, count, reg>>
      /\ UNCHANGED <<phase, total, pct, quiet, due, shown, mu, stop, ticker, line>>

(***************************************************************************)
(* report, raise and draw.                                                 *)
(***************************************************************************)

\* report of a quiet meter.
StaysQuiet(c) ==
  /\ at[c] = "report" /\ quiet /\ Goes(c, "idle")
  /\ UNCHANGED <<phase, calls, meter, ticker, reg, line>>

\* Mistake: a total is taken at its word.
Outruns_Never(n) == FALSE

\* Whether raise has to move the total up for a count.
Outruns(n) == n > total /\ total > 0

Percent(n, t) == (n * 100) \div t

\* raise loads the total, and it will do or not.  report has asked quiet
\* before, and the answer does not change back.
ReportTotal(c) ==
  /\ at[c] = "report" /\ ~quiet
  /\ Sees(c, total)
  /\ Goes(c, IF Outruns(reg[c].n) THEN "raise" ELSE "weigh")
  /\ UNCHANGED <<phase, calls, meter, ticker, line>>

\* What the compare-and-swap of raise leaves as the total.
RaisedTo(n, seen) == IF total = seen THEN n ELSE total

\* The total is moved up, or looked at again.
ReportRaise(c) ==
  /\ at[c] = "raise"
  /\ total' = RaisedTo(reg[c].n, reg[c].t)
  /\ Sees(c, reg[c].n)
  /\ Goes(c, IF total = reg[c].t THEN "weigh" ELSE "report")
  /\ UNCHANGED <<phase, calls, count, pct, quiet, due, shown, mu, stop, ticker, line>>

\* report compares the percentage with the one that was drawn.
Weigh(c) ==
  /\ at[c] = "weigh"
  /\ Goes(c, IF reg[c].t > 0 /\ pct # Percent(reg[c].n, reg[c].t) THEN "clear" ELSE "due")
  /\ UNCHANGED <<phase, calls, meter, ticker, reg, line>>

NotDue(c) ==
  /\ at[c] = "due" /\ ~due /\ Goes(c, "idle")
  /\ UNCHANGED <<phase, calls, meter, ticker, reg, line>>

IsDue(c) ==
  /\ at[c] = "due" /\ due /\ Goes(c, "clear")
  /\ UNCHANGED <<phase, calls, meter, ticker, reg, line>>

ClearDue(c) ==
  /\ at[c] = "clear" /\ due' = FALSE /\ Goes(c, "lock")
  /\ UNCHANGED <<phase, calls, count, total, pct, quiet, shown, mu, stop, ticker, reg, line>>

\* Mistake: a caller draws the count it was holding.
ToDraw_Held(c) == reg[c].n

\* The count a caller draws.
ToDraw(c) == count

\* draw takes the lock and looks at the count.
Lock(c) ==
  /\ at[c] = "lock" /\ mu = NoDrawer
  /\ mu' = c /\ Holds(c, ToDraw(c)) /\ Goes(c, "draw")
  /\ UNCHANGED <<phase, calls, count, total, pct, quiet, due, shown, stop, ticker, line>>

\* Whether this is the draw of Finish.
Final(c) == c = Owner /\ stop

\* raise, for the line.
DrawTotal(c) ==
  /\ at[c] = "draw"
  /\ Sees(c, total)
  /\ Goes(c, IF Outruns(reg[c].n) THEN "raiseDraw" ELSE "write")
  /\ UNCHANGED <<phase, calls, meter, ticker, line>>

DrawRaise(c) ==
  /\ at[c] = "raiseDraw"
  /\ total' = RaisedTo(reg[c].n, reg[c].t)
  /\ Sees(c, reg[c].n)
  /\ Goes(c, IF total = reg[c].t THEN "write" ELSE "draw")
  /\ UNCHANGED <<phase, calls, count, pct, quiet, due, shown, mu, stop, ticker, line>>

\* The line is written and the lock let go.
Draw(c) ==
  LET n == reg[c].n
      t == reg[c].t
  IN  /\ at[c] = "write"
      /\ line' = [n |-> n, total |-> t, pct |-> IF t > 0 THEN Percent(n, t) ELSE -1,
                  end |-> Final(c)]
      /\ pct' = IF t > 0 THEN Percent(n, t) ELSE pct
      /\ shown' = TRUE /\ mu' = NoDrawer
      /\ Goes(c, IF Final(c) THEN "over" ELSE "idle")
      /\ UNCHANGED <<phase, calls, count, total, quiet, due, stop, ticker, reg>>

(***************************************************************************)
(* Finish.                                                                 *)
(***************************************************************************)
Finish ==
  /\ at[Owner] = "idle" /\ \A c \in Callers : at[c] = "idle" /\ calls[c] = << >>
  /\ stop' = TRUE /\ Goes(Owner, "wait")
  /\ UNCHANGED <<phase, calls, count, total, pct, quiet, due, shown, mu, ticker, reg, line>>

WaitTicker ==
  /\ at[Owner] = "wait" /\ ticker = "gone" /\ mu = NoDrawer
  /\ Goes(Owner, IF shown THEN "lock" ELSE "over")
  /\ UNCHANGED <<phase, calls, meter, ticker, reg, line>>

MeterRest == at[Owner] = "over" /\ UNCHANGED meterVars

Caller(c) ==
  \/ Call(c) \/ Swap(c) \/ StaysQuiet(c) \/ ReportTotal(c) \/ ReportRaise(c)
  \/ Weigh(c) \/ NotDue(c) \/ IsDue(c) \/ ClearDue(c)
  \/ Lock(c) \/ DrawTotal(c) \/ DrawRaise(c) \/ Draw(c)

Ticker == DelayOver \/ Tick \/ TickerStops

MeterNext == (\E c \in Callers : Caller(c)) \/ Ticker \/ Finish \/ WaitTicker \/ MeterRest

MeterSpec == MeterInit /\ [][MeterNext]_meterVars

\* Every goroutine is scheduled, and a closed channel is seen in the end.
MeterFairSpec ==
  /\ MeterSpec /\ \A c \in Callers : WF_meterVars(Caller(c))
  /\ WF_meterVars(Tick /\ ticker = "first") /\ WF_meterVars(TickerStops)
  /\ WF_meterVars(Finish) /\ WF_meterVars(WaitTicker)

(***************************************************************************)
(* Properties.                                                             *)
(***************************************************************************)

MeterOver == at[Owner] = "over"
AllCalls == UNION {ToSet(phase.calls[c]) : c \in Callers}

\* docs/progress.md: "a meter only ever goes forwards, whatever order the work
\* finishes in".  No line shows a smaller count or total than the one before
\* it, and the percentage falls back only where the total turned out too low
\* and was raised in between (Advance, raise, draw).
OnlyForwards ==
  [][line # NoLine /\ line' # line =>
       /\ line'.n >= line.n /\ line'.total >= line.total
       /\ line'.pct < line.pct => line'.total > line.total]_meterVars

\* No line passes full, however many workers outrun the total at once
\* (raise, draw).
NeverPassesFull == line # NoLine /\ line.total > 0 => line.n <= line.total /\ line.pct <= 100

\* The count of a phase that is over is what its calls come to, whatever their
\* order: the number of steps, or the furthest advance (Step, Advance).
CountExact ==
  MeterOver =>
    count = IF AllCalls = {StepCall}
            THEN MapThenSumSet(LAMBDA c : Len(phase.calls[c]), Callers)
            ELSE Max(AllCalls \cup {0})

\* A phase that drew anything leaves its last count on the screen with the
\* final line, and one that was not delayed draws however short it was
\* (start, Finish, report).
LastLineStands ==
  MeterOver =>
    /\ shown => line # NoLine /\ line.end /\ line.n = count
    /\ ~phase.delayed /\ AllCalls # {} => shown

\* Every phase ends: Finish returns, with the count right and the last line on
\* the screen (run, Finish).
PhaseEnds == <>(MeterOver /\ CountExact /\ LastLineStands)

\* The types, and what is on the screen.
ScreenRight == MeterTypeOK /\ NeverPassesFull
=============================================================================
