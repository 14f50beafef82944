----------------------------- MODULE AgentLoop ------------------------------
(***************************************************************************)
(* The agent's event loop (agent/runtime/loop.py) on top of the event bus: *)
(* at start it reads the events after its durable cursor and dispatches    *)
(* them, then it subscribes and dispatches what is pushed to it, moving    *)
(* the cursor after each event.  The process may die at any point and is   *)
(* started again.                                                          *)
(*                                                                         *)
(* A dispatch awaits the handlers of the event and the hook relay; their   *)
(* exceptions are contained, so it always ends unless the process dies.    *)
(* There is no await between the end of a dispatch and the next event that *)
(* is already at hand, hence Begin and Consume.                            *)
(***************************************************************************)
EXTENDS EventBus

CONSTANTS Handled,     \* types with a handler: always subscribed
          Limit,       \* `limit` of read_missed
          MaxCrashes   \* bound: process deaths

ASSUME HandledAssumption == Handled \subseteq Types
ASSUME LimitAssumption == Limit \in Nat \ {0}
ASSUME MaxCrashesAssumption == MaxCrashes \in Nat

VARIABLES
  cursor,    \* CursorStore row of agent.main
  loop,      \* down, booting (process up, run() not started), catchup, live
  backlog,   \* rows of read_missed not yet dispatched
  current,   \* event being dispatched, 0 if none
  crashes,
  (* history *)
  finished,  \* events whose dispatch came to its end
  excused,   \* events that slipped through one of the cracks named below
  order      \* serial until a publication overlaps another one, or the start of the loop

loopVars == <<cursor, loop, backlog, current>>
history == <<finished, excused, order>>
vars == <<busVars, loopVars, crashes, history>>

Idle == 0

(* What only the process's memory remembers. *)
Volatile == backlog \cup Range(queue) \cup inflight \cup ({current} \ {Idle})

Init == /\ BusInit(Handled)
        /\ cursor = 0
        /\ loop = "down"
        /\ backlog = {}
        /\ current = Idle
        /\ crashes = 0
        /\ finished = {} /\ excused = {}
        /\ order = "serial"

-----------------------------------------------------------------------------
(* Publishers *)

Publish(ty) == /\ loop # "down"
               /\ Record(ty)
               /\ order' = IF inflight = {} THEN order ELSE "mixed"
               /\ UNCHANGED <<loopVars, crashes, finished, excused>>

(* Crack 1: the queue is full.  Crack 2: the loop is catching up, it has   *)
(* read the log already and not subscribed yet.                            *)
Deliver(s) ==
  /\ Offer(s)
  /\ excused' = IF \/ Accepts(s) /\ Full
                   \/ loop = "catchup" /\ s \notin backlog \cup {current} \cup finished
                THEN excused \cup {s} ELSE excused
  /\ UNCHANGED <<loopVars, crashes, finished, order>>

-----------------------------------------------------------------------------
(* EventLoop.run *)

(* mutant: subscribes after the first row *)
MutantBegin(rows) ==
  \/ /\ rows = {}
     /\ loop' = "live" /\ Subscribe
     /\ current' = Idle /\ backlog' = {}
  \/ \E s \in rows :
       /\ IsFirst(s, rows)
       /\ loop' = "catchup"
       /\ current' = s /\ backlog' = {}
       /\ UNCHANGED <<sub, queue>>

(* the for loop over the rows, then the subscription *)
Begin(rows) ==
  \/ /\ rows = {}
     /\ loop' = "live" /\ Subscribe
     /\ current' = Idle /\ backlog' = {}
  \/ \E s \in rows :
       /\ IsFirst(s, rows)
       /\ loop' = "catchup"
       /\ current' = s /\ backlog' = rows \ {s}
       /\ UNCHANGED <<sub, queue>>

Boot == /\ loop = "down"
        /\ loop' = "booting"
        /\ UNCHANGED <<busVars, cursor, backlog, current, crashes, history>>

(* read_missed moves the cursor over all the rows before the first of them *)
(* is dispatched.  Crack 3: rows beyond the limit.                         *)
CatchUp ==
  LET rows == ReadAfter(cursor, Limit) IN
  /\ loop = "booting"
  /\ IF rows = {} THEN UNCHANGED cursor ELSE \E s \in rows : IsLast(s, rows) /\ cursor' = s
  /\ Begin(rows)
  /\ excused' = excused \cup (Matching(cursor) \ rows)
  /\ order' = IF inflight = {} THEN order ELSE "mixed"
  /\ UNCHANGED <<log, inflight, patterns, crashes, finished>>

CaughtUp == /\ loop = "catchup"
            /\ finished' = finished \cup {current}
            /\ Begin(backlog)
            /\ UNCHANGED <<log, inflight, patterns, cursor, crashes, excused, order>>

(* sub.get() returns at once when the queue has an event *)
Consume == IF queue = <<>>
           THEN current' = Idle /\ UNCHANGED queue
           ELSE current' = Head(queue) /\ Get

(* mutant: the cursor moves before the dispatch *)
MutantTake == /\ loop = "live" /\ current = Idle /\ queue # <<>>
              /\ Consume
              /\ cursor' = Head(queue)
              /\ UNCHANGED <<log, inflight, patterns, sub,
                             loop, backlog, crashes, finished, excused, order>>

Take == /\ loop = "live" /\ current = Idle /\ queue # <<>>
        /\ Consume
        /\ UNCHANGED <<log, inflight, patterns, sub,
                       cursor, loop, backlog, crashes, finished, excused, order>>

(* mutant: the cursor names the next event to read *)
MutantFinish == /\ loop = "live" /\ current # Idle
                /\ finished' = finished \cup {current}
                /\ cursor' = current + 1
                /\ Consume
                /\ UNCHANGED <<log, inflight, patterns, sub,
                               loop, backlog, crashes, excused, order>>

(* mutant: the cursor stays where read_missed left it *)
MutantNoCursor == /\ loop = "live" /\ current # Idle
                  /\ finished' = finished \cup {current}
                  /\ Consume
                  /\ UNCHANGED <<log, inflight, patterns, sub, cursor,
                                 loop, backlog, crashes, excused, order>>

Finish == /\ loop = "live" /\ current # Idle
          /\ finished' = finished \cup {current}
          /\ cursor' = current
          /\ Consume
          /\ UNCHANGED <<log, inflight, patterns, sub,
                         loop, backlog, crashes, excused, order>>

(* mutant: the hooks' types replace the handlers' *)
MutantSync(extra) ==
  /\ loop # "down"
  /\ patterns' = extra
  /\ UNCHANGED <<log, inflight, sub, queue, loopVars, crashes, history>>

(* sync_extra_patterns: hooks come and go, the handlers' types stay *)
Sync(extra) ==
  /\ loop # "down"
  /\ patterns' = Handled \cup extra
  /\ UNCHANGED <<log, inflight, sub, queue, loopVars, crashes, history>>

(* Crack 4: events in memory that the cursor has already passed.           *)
Crash == /\ loop # "down" /\ crashes < MaxCrashes
         /\ crashes' = crashes + 1
         /\ BusCrash
         /\ loop' = "down" /\ backlog' = {} /\ current' = Idle
         /\ excused' = excused \cup {s \in Volatile : s <= cursor}
         /\ UNCHANGED <<cursor, finished, order>>

-----------------------------------------------------------------------------
Run == CatchUp \/ CaughtUp \/ Take \/ Finish

Next == \/ \E ty \in Types : Publish(ty)
        \/ \E s \in inflight : Deliver(s)
        \/ \E extra \in SUBSET (Types \ Handled) : Sync(extra)
        \/ Run \/ Boot \/ Crash

(* Tasks that are ready run, worker threads return, handlers end, and the  *)
(* process is started again.                                               *)
Fairness == /\ WF_vars(Run) /\ WF_vars(Boot)
            /\ \A s \in 1..MaxEvents : WF_vars(Deliver(s))

Spec == Init /\ [][Next]_vars
FairSpec == Spec /\ Fairness

-----------------------------------------------------------------------------
(* The state keeps its shape: the cursor never names an event that is not  *)
(* in the log, the handlers' types are always subscribed, the subscription *)
(* exists exactly while the loop is live, and rows that wait imply one     *)
(* that is being dispatched.                                               *)
TypeOK == /\ BusTypeOK
          /\ cursor \in 0..Len(log)
          /\ loop \in {"down", "booting", "catchup", "live"}
          /\ backlog \subseteq Events
          /\ current \in 0..Len(log)
          /\ crashes \in 0..MaxCrashes
          /\ finished \subseteq Events /\ excused \subseteq Events
          /\ order \in {"serial", "mixed"}
          /\ Handled \subseteq patterns
          /\ sub = "none" <=> loop # "live"
          /\ loop # "live" => queue = <<>>
          /\ loop # "catchup" => backlog = {}
          /\ loop = "catchup" => current # Idle
          /\ loop \in {"down", "booting"} => current = Idle

(* Conservation of events: every event with a handler has been dispatched, *)
(* is in the memory of the running process, will be read at the next       *)
(* start, or slipped through one of the four cracks: a full queue          *)
(* (bus.py:85), a push while the loop catches up (loop.py:127-131), the    *)
(* limit of read_missed (bus.py:109), a crash behind the cursor            *)
(* (bus.py:114).  There is no fifth way to lose one.                       *)
NothingVanishes ==
  \A s \in Events : log[s] \in Handled =>
    \/ s \in finished \cup Volatile \cup excused
    \/ loop \in {"down", "booting"} /\ s > cursor

(* While publications do not overlap, a crash of the live loop loses       *)
(* nothing: whatever is only in memory is ahead of the cursor, because the *)
(* cursor moves after the dispatch (loop.py:134-138).                      *)
LiveCrashLosesNothing ==
  order = "serial" /\ loop = "live" => \A s \in Volatile : s > cursor

(* While publications do not overlap, the loop dispatches the events in    *)
(* the order of the log: each is past all that were processed, so a        *)
(* restart repeats none of them (loop.py:124-138).                         *)
SerialDispatchAdvances ==
  [][order' = "serial" /\ current' # current /\ current' # Idle
       => \A s \in finished : s < current']_vars

(* Every event with a handler is eventually dispatched to its end, unless  *)
(* it slips through a crack.                                               *)
EventuallyFinished ==
  \A s \in 1..MaxEvents :
    s \in Events /\ log[s] \in Handled ~> s \in finished \cup excused

(* bus.py:3-4: the log makes up for what was not pushed, no event is lost. *)
(* So once the cursor has passed an event with a handler, it has been      *)
(* dispatched or is about to be.                                           *)
NoEventLost ==
  \A s \in Events : log[s] \in Handled /\ s <= cursor =>
    s \in finished \cup Volatile
=============================================================================
