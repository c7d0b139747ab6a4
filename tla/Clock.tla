------------------------------ MODULE Clock ------------------------------
(***************************************************************************)
(* A runtime's clock (time/clock.rs): threads that read it while others    *)
(* pause, resume and advance it.  One step per access of a shared word;    *)
(* the system's clock ticks between any two.                               *)
(***************************************************************************)
EXTENDS Integers, FiniteSets, Sequences, SequencesExt

CONSTANTS
    Readers,    \* threads that read
    Alterers,   \* threads that pause, resume and advance, a call at a time
    GRID,       \* nanoseconds of the wheels' grid
    MaxSystem,  \* bound: the system's time
    MaxCalls    \* bound: the calls of each thread

Threads == Readers \cup Alterers

VARIABLES
    system,             \* the system's monotonic clock
    ALTERED, altered,   \* the process's count, the clock's mark
    paused, base, skew, last,
    pc, call,           \* where each thread is, and in which call
    mine, looked,       \* its reading, and what it loaded before its store
    calls,
    seen,               \* the latest reading any call has returned
    floor               \* what it was as the thread's call began

words == <<ALTERED, altered, paused, base, skew, last>>
vars == <<system, words, pc, call, mine, looked, calls, seen, floor>>

Init ==
    /\ system = 0 /\ ALTERED = 0 /\ altered = FALSE /\ paused = FALSE
    /\ base = 0 /\ skew = 0 /\ last = 0
    /\ pc = [t \in Threads |-> "idle"] /\ call = [t \in Threads |-> "none"]
    /\ mine = [t \in Threads |-> 0] /\ looked = [t \in Threads |-> 0]
    /\ calls = [t \in Threads |-> 0] /\ seen = 0 /\ floor = [t \in Threads |-> 0]

Greater(a, b) == IF a >= b THEN a ELSE b
Goes(t, where) == pc' = [pc EXCEPT ![t] = where]
Mine(t, n) == mine' = [mine EXCEPT ![t] = n]
Looked(t, n) == looked' = [looked EXCEPT ![t] = n]

Begin(t, what, where) ==
    /\ pc[t] = "idle" /\ calls[t] < MaxCalls /\ calls' = [calls EXCEPT ![t] = @ + 1]
    /\ call' = [call EXCEPT ![t] = what] /\ Goes(t, where)

Tick == system < MaxSystem /\ system' = system + 1 /\ UNCHANGED <<words, pc, call, mine, looked, calls, seen, floor>>

-----------------------------------------------------------------------------
(* now_nanos: the system's time, then the look.                            *)

now_nanos(t) ==
    /\ t \in Readers /\ Begin(t, "read", "marked") /\ Mine(t, system)
    /\ floor' = [floor EXCEPT ![t] = seen]
    /\ UNCHANGED <<system, words, looked, seen>>

Returned(t, n) ==
    /\ Mine(t, n) /\ Goes(t, "idle") /\ seen' = IF t \in Readers THEN Greater(seen, n) ELSE seen

now_looks(t) ==
    /\ pc[t] = "marked"
    /\ \/ ALTERED = 0 /\ Returned(t, mine[t])
       \/ ALTERED # 0 /\ Goes(t, "paused?") /\ UNCHANGED <<mine, seen>>
    /\ UNCHANGED <<system, words, call, looked, calls, floor>>

\* now_nanos_from: a running clock's system time was read before.
now_nanos_from(t) ==
    /\ pc[t] = "paused?" /\ Goes(t, IF paused THEN "base" ELSE "skew")
    /\ UNCHANGED <<system, words, call, mine, looked, calls, seen, floor>>

now_adds(t) ==
    /\ \/ pc[t] = "base" /\ Mine(t, base)
       \/ pc[t] = "skew" /\ Mine(t, Greater(0, (IF call[t] = "pause" THEN system ELSE mine[t]) + skew))
    /\ Goes(t, "max")
    /\ UNCHANGED <<system, words, call, looked, calls, seen, floor>>

\* Mutant: the reading is not compared with the latest.
NowUnordered(t) ==
    /\ pc[t] = "max" /\ last' = Greater(last, mine[t])
    /\ IF call[t] = "pause" THEN Goes(t, "still?") /\ UNCHANGED <<mine, seen>> ELSE Returned(t, mine[t])
    /\ UNCHANGED <<system, ALTERED, altered, paused, base, skew, call, looked, calls, floor>>

now_orders(t) ==
    /\ pc[t] = "max" /\ last' = Greater(last, mine[t])
    /\ IF call[t] = "pause" THEN Mine(t, last') /\ Goes(t, "still?") /\ UNCHANGED seen
                            ELSE Returned(t, last')
    /\ UNCHANGED <<system, ALTERED, altered, paused, base, skew, call, looked, calls, floor>>

-----------------------------------------------------------------------------
(* pause.                                                                  *)

pause(t) ==
    /\ t \in Alterers /\ Begin(t, "pause", "alter")
    /\ UNCHANGED <<system, words, mine, looked, seen, floor>>

\* alter: the mark, and the process's count after it, by the first.
alter(t) ==
    /\ pc[t] = "alter" /\ altered' = TRUE
    /\ Goes(t, IF ~altered THEN "count" ELSE IF call[t] = "pause" THEN "paused?" ELSE "which")
    /\ UNCHANGED <<system, ALTERED, paused, base, skew, last, call, mine, looked, calls, seen, floor>>

alter_counts(t) ==
    /\ pc[t] = "count" /\ ALTERED' = ALTERED + 1
    /\ Goes(t, IF call[t] = "pause" THEN "paused?" ELSE "which")
    /\ UNCHANGED <<system, altered, paused, base, skew, last, call, mine, looked, calls, seen, floor>>

pause_checks(t) ==
    /\ pc[t] = "still?" /\ Goes(t, IF paused THEN "idle" ELSE "store")
    /\ UNCHANGED <<system, words, call, mine, looked, calls, seen, floor>>

\* On the grid, at or after the time read.
pause_stores(t) ==
    /\ pc[t] = "store" /\ base' = ((mine[t] + GRID - 1) \div GRID) * GRID
    /\ Mine(t, base') /\ Goes(t, "stop")
    /\ UNCHANGED <<system, ALTERED, altered, paused, skew, last, call, looked, calls, seen, floor>>

pause_stops(t) ==
    /\ pc[t] = "stop" /\ paused' = TRUE /\ Goes(t, "reread")
    /\ UNCHANGED <<system, ALTERED, altered, base, skew, last, call, mine, looked, calls, seen, floor>>

pause_rereads(t) ==
    /\ pc[t] = "reread" /\ Looked(t, last) /\ Goes(t, "raise")
    /\ UNCHANGED <<system, words, call, mine, calls, seen, floor>>

pause_raises(t) ==
    /\ pc[t] = "raise" /\ base' = Greater(base, looked[t]) /\ Goes(t, "done")
    /\ UNCHANGED <<system, ALTERED, altered, paused, skew, last, call, mine, looked, calls, seen, floor>>

pause_ends(t) ==
    /\ pc[t] = "done" /\ last' = Greater(last, mine[t]) /\ Goes(t, "idle")
    /\ UNCHANGED <<system, ALTERED, altered, paused, base, skew, call, mine, looked, calls, seen, floor>>

-----------------------------------------------------------------------------
(* resume and advance.                                                     *)

resume(t) ==
    /\ t \in Alterers /\ paused /\ Begin(t, "resume", "from") /\ Looked(t, base)
    /\ UNCHANGED <<system, words, mine, seen, floor>>

resume_skews(t) ==
    /\ pc[t] = "from" /\ skew' = looked[t] - system /\ Goes(t, "start")
    /\ UNCHANGED <<system, ALTERED, altered, paused, base, last, call, mine, looked, calls, seen, floor>>

resume_starts(t) ==
    /\ pc[t] = "start" /\ paused' = FALSE /\ Goes(t, "idle")
    /\ UNCHANGED <<system, ALTERED, altered, base, skew, last, call, mine, looked, calls, seen, floor>>

advance(t) ==
    /\ t \in Alterers /\ Begin(t, "advance", "alter")
    /\ UNCHANGED <<system, words, mine, looked, seen, floor>>

advance_looks(t) ==
    /\ pc[t] = "which" /\ Goes(t, IF paused THEN "add" ELSE "shift")
    /\ UNCHANGED <<system, words, call, mine, looked, calls, seen, floor>>

\* By one; advance_to_nanos of a paused clock is the same.
advance_adds(t) ==
    /\ \/ pc[t] = "add" /\ base' = base + 1 /\ UNCHANGED skew
       \/ pc[t] = "shift" /\ skew' = skew + 1 /\ UNCHANGED base
    /\ Goes(t, "idle")
    /\ UNCHANGED <<system, ALTERED, altered, paused, last, call, mine, looked, calls, seen, floor>>

Next ==
    \/ Tick
    \/ \E t \in Threads :
        \/ now_nanos(t) \/ now_looks(t) \/ now_nanos_from(t) \/ now_adds(t) \/ now_orders(t)
        \/ pause(t) \/ alter(t) \/ alter_counts(t) \/ pause_checks(t) \/ pause_stores(t) \/ pause_stops(t)
        \/ pause_rereads(t) \/ pause_raises(t) \/ pause_ends(t)
        \/ resume(t) \/ resume_skews(t) \/ resume_starts(t)
        \/ advance(t) \/ advance_looks(t) \/ advance_adds(t)

Spec == Init /\ [][Next]_vars

-----------------------------------------------------------------------------
\* "The latest time read, so reads never go backwards": no call of now_nanos returns less
\* than one that had returned, on any thread, as it began, across pauses, resumes and
\* advances.
ReadsForward == \A t \in Readers : pc[t] = "idle" => mine[t] >= floor[t]

------------------------------------------------------------------------------
(***************************************************************************)
(* A paused clock that moves by itself (rt/paused.rs): the jump to the     *)
(* earliest timer, decided by whoever goes idle last, against the shards'  *)
(* parks (run_loop, before_park, after_park), the blocking pool's jobs,    *)
(* the remote arms (Arming of time/sleep.rs), the polls the handoff took,  *)
(* and the guests that come and go with a block_on.  Wheels are sets of    *)
(* deadlines, a task is a step of the shard that runs it.                  *)
(***************************************************************************)

CONSTANTS
    Workers,    \* the workers' shards
    Guest,      \* the own shard of a thread inside block_on
    Pool, Arm,  \* a thread of the blocking pool, and one outside the runtime
    Comes,      \* threads outside enter a block_on while the clock is paused
    MaxTime,    \* bound: the latest deadline
    MaxActs     \* bound: what tasks and outside threads do of their own

Shards == Workers \cup {Guest}
Actors == Shards \cup {Pool, Arm}
Never == MaxTime + 1
Order == SetToSeq(Workers) \o <<Guest>>

VARIABLES
    paused_base, advancing,
    jobs, detached, arms,
    timers, pushed, posted,     \* of each shard: armed, tasks pushed, deadlines posted
    timer_at, flag, at,
    joined, taken,              \* the guest's shard counts; its thread's poll was taken
    armed,                      \* the deadline a remote arm made of the time it read
    paused_pc, me, look, earliest, due,    \* the attempt under way: who makes it, and what it saw
    acts

shvars == <<timers, pushed, posted, timer_at, flag, at>>
flight == <<jobs, detached, arms>>
attempt == <<paused_pc, me, look, earliest, due>>
paused_vars == <<paused_base, advancing, flight, shvars, joined, taken, armed, attempt, acts>>

\* What an attempt saw: the shards it looks at, those whose park count has not changed since,
\* and whether the count of members has not.
Unlooked == [shards |-> <<>>, seen |-> {}, same |-> TRUE, i |-> 0]

PausedInit ==
    /\ paused_base = 0 /\ advancing = FALSE /\ jobs = 0 /\ detached = 0 /\ arms = 0
    /\ timers = [s \in Shards |-> {}] /\ pushed = [s \in Shards |-> 0] /\ posted = [s \in Shards |-> {}]
    /\ timer_at = [s \in Shards |-> Never] /\ flag = [s \in Shards |-> FALSE]
    /\ at = [a \in Actors |-> IF a \in Workers THEN "run" ELSE "off"]
    /\ joined = FALSE /\ taken = FALSE /\ armed = Never
    /\ paused_pc = "none" /\ me = Pool /\ look = Unlooked /\ earliest = Never /\ due = FALSE
    /\ acts = 0

At(a, where) == at' = [at EXCEPT ![a] = where]
Act == acts < MaxActs /\ acts' = acts + 1

\* The shards a look goes over: the workers', then the guests'.
Counted == SelectSeq(Order, LAMBDA s : s # Guest \/ joined)

Remote(s) == pushed[s] > 0 \/ posted[s] # {}
idle(s) == flag[s] /\ ~Remote(s)
in_flight == jobs # 0 \/ detached # 0 \/ arms # 0

First(s) == IF timers[s] = {} THEN Never ELSE CHOOSE d \in timers[s] : \A e \in timers[s] : d <= e

-----------------------------------------------------------------------------
(* try_advance, by actor a; `at[a]` says what comes after it.              *)

\* One attempt is under way at a time: another's begins at the claim.
claim_advance(a) ==
    /\ at[a] = "try" /\ ~advancing /\ advancing' = TRUE
    /\ paused_pc' = "look" /\ me' = a /\ earliest' = Never /\ due' = FALSE
    /\ look' = [Unlooked EXCEPT !.i = 1]
    /\ UNCHANGED <<paused_base, flight, shvars, joined, taken, armed, acts>>

Fails == paused_pc' = "release" /\ UNCHANGED <<me, look, earliest, due>>

attempt_begins ==
    /\ paused_pc = "look"
    /\ \/ in_flight /\ Fails
       \/ /\ ~in_flight /\ paused_pc' = "idle" /\ look' = [look EXCEPT !.shards = Counted]
          /\ UNCHANGED <<me, earliest, due>>
    /\ UNCHANGED <<paused_base, advancing, flight, shvars, joined, taken, armed, acts>>

\* The first look at a shard: idle, its deadline, then its park count.
attempt_looks ==
    /\ paused_pc \in {"idle", "at", "parks"} /\ look.i <= Len(look.shards)
    /\ LET s == look.shards[look.i]
       IN  \/ paused_pc = "idle" /\ ~idle(s) /\ Fails
           \/ paused_pc = "idle" /\ idle(s) /\ paused_pc' = "at" /\ UNCHANGED <<me, look, earliest, due>>
           \/ /\ paused_pc = "at" /\ paused_pc' = "parks"
              /\ earliest' = IF timer_at[s] < earliest THEN timer_at[s] ELSE earliest
              /\ UNCHANGED <<me, look, due>>
           \/ /\ paused_pc = "parks" /\ paused_pc' = "idle"
              /\ look' = [look EXCEPT !.seen = @ \cup {s}, !.i = @ + 1]
              /\ UNCHANGED <<me, earliest, due>>
    /\ UNCHANGED <<paused_base, advancing, flight, shvars, joined, taken, armed, acts>>

attempt_again ==
    /\ paused_pc = "idle" /\ look.i > Len(look.shards)
    /\ IF earliest = Never \/ ~look.same \/ in_flight THEN Fails
       ELSE paused_pc' = "still" /\ look' = [look EXCEPT !.i = 1] /\ UNCHANGED <<me, earliest, due>>
    /\ UNCHANGED <<paused_base, advancing, flight, shvars, joined, taken, armed, acts>>

attempt_rechecks ==
    /\ paused_pc = "still" /\ look.i <= Len(look.shards)
    /\ LET s == look.shards[look.i]
       IN  IF idle(s) /\ s \in look.seen
           THEN look' = [look EXCEPT !.i = @ + 1] /\ UNCHANGED <<paused_pc, me, earliest, due>>
           ELSE Fails
    /\ UNCHANGED <<paused_base, advancing, flight, shvars, joined, taken, armed, acts>>

\* advance_to_nanos.
attempt_jumps ==
    /\ paused_pc = "still" /\ look.i > Len(look.shards)
    /\ paused_base' = IF paused_base >= earliest THEN paused_base ELSE earliest
    /\ paused_pc' = "wake" /\ look' = [look EXCEPT !.i = 1] /\ UNCHANGED <<me, earliest, due>>
    /\ UNCHANGED <<advancing, flight, shvars, joined, taken, armed, acts>>

attempt_wakes ==
    /\ paused_pc = "wake"
    /\ IF look.i > Len(look.shards) THEN paused_pc' = "release" /\ UNCHANGED <<flag, me, look, earliest, due>>
       ELSE LET s == look.shards[look.i]
            IN  /\ look' = [look EXCEPT !.i = @ + 1] /\ UNCHANGED <<paused_pc, me, earliest>>
                /\ due' = (due \/ (s = me /\ timer_at[s] <= earliest))
                /\ flag' = IF s # me /\ timer_at[s] <= earliest THEN [flag EXCEPT ![s] = FALSE] ELSE flag
    /\ UNCHANGED <<paused_base, advancing, flight, timers, pushed, posted, timer_at, at, joined, taken, armed, acts>>

\* release_advance, and the attempt's end: a shard whose timer is due does not sleep.
release_advance ==
    /\ paused_pc = "release" /\ advancing' = FALSE /\ paused_pc' = "none"
    /\ At(me, IF me \notin Shards \/ (me = Guest /\ ~joined) THEN "off" ELSE IF due THEN "end" ELSE "sleep")
    /\ me' = Pool /\ look' = Unlooked /\ earliest' = Never /\ due' = FALSE
    /\ UNCHANGED <<paused_base, flight, timers, pushed, posted, timer_at, flag, joined, taken, armed, acts>>

-----------------------------------------------------------------------------
(* A shard's thread.                                                       *)

\* push_remote and post_timer: the work, then the wake of a parked shard.
Pushed(s) == pushed' = [pushed EXCEPT ![s] = @ + 1] /\ flag' = [flag EXCEPT ![s] = FALSE]

Runs(s) == at[s] = "run" /\ (s = Guest => joined)

\* A task of the shard arms a timer, starts a job, or wakes a task of another shard.
task_arms(s) ==
    /\ Runs(s) /\ Act /\ \E d \in (paused_base + 1)..MaxTime : timers' = [timers EXCEPT ![s] = @ \cup {d}]
    /\ UNCHANGED <<paused_base, advancing, flight, pushed, posted, timer_at, flag, at, joined, taken, armed, attempt>>

task_submits(s) ==
    /\ Runs(s) /\ Act /\ at[Pool] = "off" /\ jobs' = jobs + 1 /\ At(Pool, "job")
    /\ UNCHANGED <<paused_base, advancing, detached, arms, timers, pushed, posted, timer_at, flag, joined, taken, armed, attempt>>

\* The handoff takes the poll a worker's thread is in: the thread may enter a block_on.
task_taken(s) ==
    /\ s \in Workers /\ Runs(s) /\ Act /\ at[Guest] = "off" /\ detached' = detached + 1 /\ taken' = TRUE
    /\ At(Guest, "enter")
    /\ UNCHANGED <<paused_base, advancing, jobs, arms, timers, pushed, posted, timer_at, flag, joined, armed, attempt>>

\* The tasks pushed run, the posts are applied and the due timers fire.
fire_timers(s) ==
    /\ Runs(s)
    /\ Remote(s) \/ First(s) <= paused_base
    /\ pushed' = [pushed EXCEPT ![s] = 0] /\ posted' = [posted EXCEPT ![s] = {}]
    /\ timers' = [timers EXCEPT ![s] = {d \in @ \cup posted[s] : d > paused_base}]
    /\ UNCHANGED <<paused_base, advancing, flight, timer_at, flag, at, joined, taken, armed, attempt, acts>>

\* Nothing to run and nothing due: the deadline is published, then the park counted.
before_park(s) ==
    /\ Runs(s) /\ ~Remote(s) /\ First(s) > paused_base /\ timer_at' = [timer_at EXCEPT ![s] = First(s)] /\ At(s, "announce")
    /\ look' = [look EXCEPT !.seen = @ \ {s}]
    /\ UNCHANGED <<paused_base, advancing, flight, timers, pushed, posted, flag, joined, taken, armed, paused_pc, me, earliest, due, acts>>

begin_park(s) ==
    /\ at[s] = "announce" /\ flag' = [flag EXCEPT ![s] = TRUE] /\ At(s, "last")
    /\ UNCHANGED <<paused_base, advancing, flight, timers, pushed, posted, timer_at, joined, taken, armed, attempt, acts>>

begin_park_looks(s) ==
    /\ at[s] = "last"
    /\ \/ Remote(s) /\ flag' = [flag EXCEPT ![s] = FALSE] /\ At(s, "after")
       \/ ~Remote(s) /\ At(s, "drive") /\ UNCHANGED flag
    /\ UNCHANGED <<paused_base, advancing, flight, timers, pushed, posted, timer_at, joined, taken, armed, attempt, acts>>

\* The park's drive: posts are applied and timers fire; work or a due timer ends it at
\* once (timer_wait), and otherwise the shard tries to move the clock.
drive(s) ==
    /\ at[s] = "drive" /\ posted' = [posted EXCEPT ![s] = {}]
    /\ timers' = [timers EXCEPT ![s] = {d \in @ \cup posted[s] : d > paused_base}]
    /\ At(s, IF \E d \in timers[s] \cup posted[s] : d <= paused_base THEN "end" ELSE "try")
    /\ UNCHANGED <<paused_base, advancing, flight, pushed, timer_at, flag, joined, taken, armed, attempt, acts>>

\* A parked shard sleeps until a wake clears its flag.
sleep_ends(s) ==
    /\ at[s] = "sleep" /\ ~flag[s] /\ At(s, "after")
    /\ UNCHANGED <<paused_base, advancing, flight, timers, pushed, posted, timer_at, flag, joined, taken, armed, attempt, acts>>

end_park(s) ==
    /\ at[s] = "end" /\ flag' = [flag EXCEPT ![s] = FALSE] /\ At(s, "after")
    /\ UNCHANGED <<paused_base, advancing, flight, timers, pushed, posted, timer_at, joined, taken, armed, attempt, acts>>

after_park(s) ==
    /\ at[s] = "after" /\ ~advancing /\ At(s, "run")
    /\ UNCHANGED <<paused_base, advancing, flight, timers, pushed, posted, timer_at, flag, joined, taken, armed, attempt, acts>>

-----------------------------------------------------------------------------
(* The other threads.                                                      *)

\* A job ends: its awaiter is woken before it is counted out.
job_wakes ==
    /\ at[Pool] = "job" /\ At(Pool, "count") /\ \E s \in Workers : Pushed(s)
    /\ UNCHANGED <<paused_base, advancing, flight, timers, posted, timer_at, joined, taken, armed, attempt, acts>>

job_ends ==
    /\ at[Pool] = "count" /\ jobs' = jobs - 1 /\ At(Pool, IF jobs = 1 THEN "try" ELSE "off")
    /\ UNCHANGED <<paused_base, advancing, detached, arms, timers, pushed, posted, timer_at, flag, joined, taken, armed, attempt, acts>>

\* A thread outside the runtime arms a sleep (Arming::enter, poll_remote, Arming::drop).
arm_began ==
    /\ at[Arm] = "off" /\ Act /\ arms' = arms + 1 /\ At(Arm, "wait")
    /\ UNCHANGED <<paused_base, advancing, jobs, detached, timers, pushed, posted, timer_at, flag, joined, taken, armed, attempt>>

arm_waits ==
    /\ at[Arm] = "wait" /\ ~advancing /\ At(Arm, "read")
    /\ UNCHANGED <<paused_base, advancing, flight, timers, pushed, posted, timer_at, flag, joined, taken, armed, attempt, acts>>

arm_reads ==
    /\ at[Arm] = "read" /\ At(Arm, "post") /\ \E d \in paused_base..MaxTime : armed' = IF d = paused_base THEN Never ELSE d
    /\ UNCHANGED <<paused_base, advancing, flight, timers, pushed, posted, timer_at, flag, joined, taken, attempt, acts>>

arm_posts ==
    /\ at[Arm] = "post" /\ At(Arm, "ends") /\ armed' = Never
    /\ \/ armed = Never /\ UNCHANGED <<posted, flag>>
       \/ /\ armed # Never
          /\ \E s \in Workers : /\ posted' = [posted EXCEPT ![s] = @ \cup {armed}]
                                /\ flag' = [flag EXCEPT ![s] = FALSE]
    /\ UNCHANGED <<paused_base, advancing, flight, timers, pushed, timer_at, joined, taken, attempt, acts>>

arm_ended ==
    /\ at[Arm] = "ends" /\ arms' = arms - 1 /\ At(Arm, "try")
    /\ UNCHANGED <<paused_base, advancing, jobs, detached, timers, pushed, posted, timer_at, flag, joined, taken, armed, attempt, acts>>

\* A thread outside enters a block_on on its own shard.
guest_comes ==
    /\ Comes /\ at[Guest] = "off" /\ Act /\ At(Guest, "enter")
    /\ UNCHANGED <<paused_base, advancing, flight, timers, pushed, posted, timer_at, flag, joined, taken, armed, attempt>>

\* Guest::join: counted, and seen to be, before its taken poll is counted out.
join ==
    /\ at[Guest] = "enter" /\ joined' = TRUE /\ At(Guest, "changed")
    /\ flag' = [flag EXCEPT ![Guest] = FALSE]
    /\ UNCHANGED <<paused_base, advancing, flight, timers, pushed, posted, timer_at, taken, armed, attempt, acts>>

join_counts ==
    /\ at[Guest] = "changed" /\ look' = [look EXCEPT !.same = FALSE] /\ At(Guest, "out")
    /\ UNCHANGED <<paused_base, advancing, flight, timers, pushed, posted, timer_at, flag, joined, taken, armed, paused_pc, me, earliest, due, acts>>

count_out_taken_here ==
    /\ at[Guest] = "out" /\ At(Guest, "run") /\ detached' = IF taken THEN detached - 1 ELSE detached
    /\ UNCHANGED <<paused_base, advancing, jobs, arms, timers, pushed, posted, timer_at, flag, joined, taken, armed, attempt, acts>>

\* Guest::leave: a taken poll is in flight again first.  The shard's timers go with the
\* block_on's future.
leave ==
    /\ at[Guest] = "run" /\ joined /\ At(Guest, "remove") /\ timers' = [timers EXCEPT ![Guest] = {}]
    /\ pushed' = [pushed EXCEPT ![Guest] = 0]
    /\ detached' = IF taken THEN detached + 1 ELSE detached
    /\ UNCHANGED <<paused_base, advancing, jobs, arms, posted, timer_at, flag, joined, taken, armed, attempt, acts>>

leave_removes ==
    /\ at[Guest] = "remove" /\ joined' = FALSE /\ At(Guest, "left")
    /\ UNCHANGED <<paused_base, advancing, flight, timers, pushed, posted, timer_at, flag, taken, armed, attempt, acts>>

leave_counts ==
    /\ at[Guest] = "left" /\ look' = [look EXCEPT !.same = FALSE]
    /\ At(Guest, IF taken THEN "taken" ELSE "try")
    /\ UNCHANGED <<paused_base, advancing, flight, timers, pushed, posted, timer_at, flag, joined, taken, armed, paused_pc, me, earliest, due, acts>>

\* finish_taken: the poll ends, its task woken elsewhere, and is counted out.
finish_taken ==
    /\ at[Guest] \in {"enter", "taken"} /\ taken /\ taken' = FALSE /\ detached' = detached - 1
    /\ At(Guest, "try") /\ \E s \in Workers : Pushed(s)
    /\ UNCHANGED <<paused_base, advancing, jobs, arms, timers, posted, timer_at, joined, armed, attempt, acts>>

Step(a) ==
    \/ claim_advance(a)
    \/ a \in Shards /\ (\/ fire_timers(a) \/ before_park(a) \/ begin_park(a)
                        \/ begin_park_looks(a) \/ drive(a) \/ sleep_ends(a) \/ end_park(a) \/ after_park(a))
    \/ a = Pool /\ (job_wakes \/ job_ends)
    \/ a = Arm /\ (arm_waits \/ arm_reads \/ arm_posts \/ arm_ended)
    \/ a = Guest /\ (join \/ join_counts \/ count_out_taken_here \/ leave_removes \/ leave_counts \/ finish_taken)

Deciding ==
    \/ attempt_begins \/ attempt_looks \/ attempt_again \/ attempt_rechecks
    \/ attempt_jumps \/ attempt_wakes \/ release_advance

PausedNext ==
    \/ \E a \in Actors : Step(a)
    \/ Deciding
    \/ \E s \in Shards : task_arms(s) \/ task_submits(s) \/ task_taken(s)
    \/ arm_began \/ guest_comes \/ leave

PausedSpec == PausedInit /\ [][PausedNext]_paused_vars
PausedFairSpec == PausedSpec /\ WF_paused_vars(Deciding) /\ \A a \in Actors : SF_paused_vars(Step(a))

-----------------------------------------------------------------------------
\* The jump goes to the earliest timer: no timer armed in a wheel, posted to a shard, or
\* made of a time read before the jump, is before the time the clock is moved to.
SkipsNone ==
    paused_base' > paused_base => /\ \A s \in Shards : \A d \in timers[s] \cup posted[s] : d >= paused_base'
                    /\ armed >= paused_base'
==============================================================================
