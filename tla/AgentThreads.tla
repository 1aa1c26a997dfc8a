---------------------------- MODULE AgentThreads ----------------------------
(***************************************************************************)
(* Threads in which agents talk: the tools collaborate_with_agent and      *)
(* reply_to_collaboration write them through collaboration/engine.ts,      *)
(* people through createA2ATurn and transitionA2AThread of collaboration/  *)
(* repository.ts.  The two take the number of a turn from different        *)
(* places: agents from the column latestTurnSeq, people from the turns.    *)
(* Only the unique index on (threadId, seq) knows of both.                 *)
(*                                                                         *)
(* The tools invent a task id from the clock ('adhoc-' + Date.now()), so a *)
(* call finds a session only if another one made it in its millisecond.    *)
(* The handoff request behind a turn is read by no code and is left out.   *)
(***************************************************************************)
EXTENDS Integers, Sequences, FiniteSets

CONSTANTS Thread,    \* ids a thread may draw
          Speaker,   \* calls of agents and people in flight
          Moment,    \* values of the clock
          Member,    \* agents
          Pair,      \* who speaks and who is spoken to
          Unused,    \* a thread that does not exist
          MaxSessions, MaxTurnsWritten  \* bounds of the model

ThreadRow == [open: BOOLEAN, latest: Nat, session: Nat, members: SUBSET Member]

ASSUME ThreadBounds ==
  /\ {MaxSessions, MaxTurnsWritten} \subseteq Nat
  /\ Pair \subseteq Member \X Member
  /\ Unused \notin ThreadRow \cup Thread

VARIABLES thread,  \* Thread -> its row, or Unused
          turns,   \* Thread -> the numbers of its turns, in the order they were written
          session, \* the sessions' moments
          talk     \* Speaker -> its call: the statement it awaits, and what it knows

threadVars == <<thread, turns, session, talk>>

Silent == [at |-> "idle", moment |-> Unused, pair |-> <<>>, session |-> 0,
           thread |-> Unused, number |-> 0]

ThreadInit ==
  /\ thread = [t \in Thread |-> Unused] /\ turns = [t \in Thread |-> <<>>]
  /\ session = <<>> /\ talk = [w \in Speaker |-> Silent]

\* latestTurnSeq written ahead of the turn it is about
LatestFirst ==
  [findSession |-> "createSession", createSession |-> "findThread",
   findThread |-> "createThread", createThread |-> "writeLatest", readThread |-> "writeLatest",
   writeLatest |-> "insertTurn", insertTurn |-> "idle",
   readTurns |-> "transaction", transaction |-> "idle"]

\* The statement after each.
Then ==
  [findSession |-> "createSession", createSession |-> "findThread",
   findThread |-> "createThread", createThread |-> "insertTurn", readThread |-> "insertTurn",
   insertTurn |-> "writeLatest", writeLatest |-> "idle",
   readTurns |-> "transaction", transaction |-> "idle"]

Awaits(w, statement) == talk[w].at = statement
Proceed(w, c) == talk' = [talk EXCEPT ![w] = IF Then[c.at] = "idle" THEN Silent
                                             ELSE [c EXCEPT !.at = Then[c.at]]]
Throw(w) == talk' = [talk EXCEPT ![w] = Silent]

Exists(t) == thread[t] # Unused

-----------------------------------------------------------------------------
(* The three writers *)

Collaborate(w, m, pair) ==
  /\ Awaits(w, "idle")
  /\ talk' = [talk EXCEPT ![w] = [Silent EXCEPT !.at = "findSession", !.moment = m, !.pair = pair]]
  /\ UNCHANGED <<thread, turns, session>>

Reply(w, t) ==
  /\ Awaits(w, "idle")
  /\ talk' = [talk EXCEPT ![w] = [Silent EXCEPT !.at = "readThread", !.thread = t]]
  /\ UNCHANGED <<thread, turns, session>>

HumanTurn(w, t) ==
  /\ Awaits(w, "idle")
  /\ talk' = [talk EXCEPT ![w] = [Silent EXCEPT !.at = "readTurns", !.thread = t]]
  /\ UNCHANGED <<thread, turns, session>>

-----------------------------------------------------------------------------
(* Their statements *)

\* What findFirst finds makes the next statement, the create, unnecessary.
Found(w, c) == Proceed(w, [c EXCEPT !.at = Then[@]])

FindSession(w) ==
  LET active == {i \in DOMAIN session : session[i] = talk[w].moment} IN
  /\ Awaits(w, "findSession")
  /\ IF active = {} THEN Proceed(w, talk[w])
     ELSE \E i \in active : Found(w, [talk[w] EXCEPT !.session = i])
  /\ UNCHANGED <<thread, turns, session>>

CreateSession(w) ==
  /\ Awaits(w, "createSession") /\ Len(session) < MaxSessions
  /\ session' = Append(session, talk[w].moment)
  /\ Proceed(w, [talk[w] EXCEPT !.session = Len(session')])
  /\ UNCHANGED <<thread, turns>>

\* An open thread of the session that the speaker is in.
OpenTo(w) == {t \in Thread : Exists(t) /\ thread[t].open /\ thread[t].session = talk[w].session
                                       /\ talk[w].pair[1] \in thread[t].members}

FindThread(w) ==
  /\ Awaits(w, "findThread")
  /\ IF OpenTo(w) = {} THEN Proceed(w, talk[w])
     ELSE \E t \in OpenTo(w) :
            Found(w, [talk[w] EXCEPT !.thread = t, !.number = thread[t].latest + 1])
  /\ UNCHANGED <<thread, turns, session>>

CreateThread(w) ==
  /\ Awaits(w, "createThread")
  /\ \E t \in Thread :
       /\ ~Exists(t) /\ \A u \in Thread : ~Exists(u) => t <= u
       /\ thread' = [thread EXCEPT ![t] = [open |-> TRUE, latest |-> 0, session |-> talk[w].session,
                                           members |-> {talk[w].pair[1], talk[w].pair[2]}]]
       /\ Proceed(w, [talk[w] EXCEPT !.thread = t, !.number = 1])
  /\ UNCHANGED <<turns, session>>

\* A reply asks neither whether the thread is open nor whether the agent is in it.
ReadThread(w) ==
  LET t == talk[w].thread IN
  /\ Awaits(w, "readThread")
  /\ IF Exists(t) THEN Proceed(w, [talk[w] EXCEPT !.number = thread[t].latest + 1]) ELSE Throw(w)
  /\ UNCHANGED <<thread, turns, session>>

\* nextTurnSeq: one more than the greatest number.
NextTurnSeq(t) == 1 + (IF turns[t] = <<>> THEN 0
                       ELSE CHOOSE n \in {turns[t][i] : i \in DOMAIN turns[t]} :
                              \A i \in DOMAIN turns[t] : turns[t][i] <= n)

ReadTurns(w) ==
  LET t == talk[w].thread IN
  /\ Awaits(w, "readTurns")
  /\ IF Exists(t) THEN Proceed(w, [talk[w] EXCEPT !.number = NextTurnSeq(t)]) ELSE Throw(w)
  /\ UNCHANGED <<thread, turns, session>>

Taken(t, n) == \E i \in DOMAIN turns[t] : turns[t][i] = n

\* The unique index refuses a number that is taken, and the call throws.
InsertTurn(w) ==
  LET t == talk[w].thread  n == talk[w].number IN
  /\ Awaits(w, "insertTurn") /\ Len(turns[t]) < MaxTurnsWritten
  /\ IF Taken(t, n) THEN Throw(w) /\ UNCHANGED turns
     ELSE turns' = [turns EXCEPT ![t] = Append(@, n)] /\ Proceed(w, talk[w])
  /\ UNCHANGED <<thread, session>>

\* By id alone, over what another call has written meanwhile.
WriteLatest(w) ==
  /\ Awaits(w, "writeLatest")
  /\ thread' = [thread EXCEPT ![talk[w].thread].latest = talk[w].number]
  /\ Proceed(w, talk[w])
  /\ UNCHANGED <<turns, session>>

\* The person's turn and latestTurnSeq are one transaction.
Transaction(w) ==
  LET t == talk[w].thread  n == talk[w].number IN
  /\ Awaits(w, "transaction") /\ Len(turns[t]) < MaxTurnsWritten
  /\ IF Taken(t, n) THEN Throw(w) /\ UNCHANGED <<turns, thread>>
     ELSE /\ turns' = [turns EXCEPT ![t] = Append(@, n)]
          /\ thread' = [thread EXCEPT ![t].latest = n]
          /\ Proceed(w, talk[w])
  /\ UNCHANGED <<session>>

CloseThread(t) ==
  /\ Exists(t) /\ thread[t].open
  /\ thread' = [thread EXCEPT ![t].open = FALSE]
  /\ UNCHANGED <<turns, session, talk>>

\* A statement fails, or the process stops: what was written stays.
CutOff(w) ==
  /\ ~Awaits(w, "idle") /\ Throw(w)
  /\ UNCHANGED <<thread, turns, session>>

ThreadNext ==
  \/ \E w \in Speaker :
       \/ \E m \in Moment, pair \in Pair : Collaborate(w, m, pair)
       \/ \E t \in Thread : Reply(w, t) \/ HumanTurn(w, t)
       \/ FindSession(w) \/ CreateSession(w) \/ FindThread(w) \/ CreateThread(w) \/ ReadThread(w) \/ ReadTurns(w)
       \/ InsertTurn(w) \/ WriteLatest(w) \/ Transaction(w) \/ CutOff(w)
  \/ \E t \in Thread : CloseThread(t)

ThreadSpec == ThreadInit /\ [][ThreadNext]_threadVars

-----------------------------------------------------------------------------
(* Properties *)

\* The turns of a thread are numbered in the order they were written, from one
\* and without a gap, although agents count by a column that lags behind or runs
\* back, people by the turns, and calls stop between the turn and the column.
TurnsInOrder == \A t \in Thread : \A i \in DOMAIN turns[t] : turns[t][i] = i

-----------------------------------------------------------------------------
(* Statements that the code does not keep *)

\* When nobody writes, an agent's next reply is accepted: a call cut off after its
\* turn, or two that overlap with a person's, leave latestTurnSeq behind, and every
\* reply after that is refused by the unique index until a person writes a turn.
AgentsCanReply ==
  (\A w \in Speaker : Awaits(w, "idle")) =>
     \A t \in Thread : Exists(t) => thread[t].latest = Len(turns[t])

\* Nothing is said in a thread that is closed.
ClosedStaysSilent ==
  [][\A t \in Thread : Exists(t) /\ ~thread[t].open => turns'[t] = turns[t]]_threadVars

\* A thread of a session that an agent is in is used again.
OneThreadPerPair ==
  \A t, u \in Thread : Exists(t) /\ Exists(u) /\ thread[t].open /\ thread[u].open
      /\ thread[t].session = thread[u].session /\ thread[t].members = thread[u].members => t = u
=============================================================================
