----------------------------- MODULE ZesaruxQuit -----------------------------
(***************************************************************************)
(* The end of the connection to ZEsarUX.  Several calls of quit (a         *)
(* disconnect request, an error, a version that is too old) take turns     *)
(* with a mutex; each replaces the listeners of the socket by its own,     *)
(* which unlock it and settle the call when the socket closes, fails or is *)
(* silent for too long.  As the mutex knows nothing of that, part of the   *)
(* behaviours are those of any other tasks that use it.                    *)
(***************************************************************************)
EXTENDS Mutex

VARIABLES
  quitting,    \* whether the tasks are calls of quit
  state,       \* SocketState: "CONNECTED" or "UNCONNECTED"
  socket,      \* the socket itself: "open", "ended" (by this side), "closed"
  listeners,   \* whose listeners the socket has: a task's, {"remote"}, or none
  quit,        \* quit[t]: "no", "called", "written" (the commands, up to the quit), "settled", or
               \* "returned" (at once, as the state was "UNCONNECTED")
  silent,      \* history: whether ZEsarUX was silent for too long before any call replaced the listeners
  hung         \* history: the calls that unlock or lock has thrown at: nobody settles them

socketVars == <<quitting, state, socket, listeners, quit, silent, hung>>
allVars == <<vars, socketVars>>

QuitInit ==
  /\ Init
  /\ quitting \in BOOLEAN
  /\ state = "CONNECTED" /\ socket = "open" /\ listeners = {"remote"}
  /\ quit = [t \in Tasks |-> "no"] /\ silent = FALSE /\ hung = {}

\* quit: it is only here that the state is looked at
Quit(t) ==
  /\ quit[t] = "no"
  /\ IF state = "UNCONNECTED"
     THEN quit' = [quit EXCEPT ![t] = "returned"] /\ UNCHANGED vars
     ELSE quit' = [quit EXCEPT ![t] = "called"] /\ lock(t)
  /\ UNCHANGED <<quitting, state, socket, listeners, silent, hung>>

\* the lock is there: the queue is emptied, the listeners are replaced, the commands are sent
Locked(t) ==
  /\ Enter(t)
  /\ listeners' = {t}
  /\ quit' = [quit EXCEPT ![t] = "written"]
  /\ UNCHANGED <<quitting, state, socket, silent, hung>>

\* what a listener of task t does with an event
Listener(t) ==
  /\ listeners' = {}
  /\ \/ unlock(t) /\ quit' = [quit EXCEPT ![t] = "settled"] /\ UNCHANGED hung
     \/ UnlockThrows(t) /\ hung' = hung \cup {t} /\ UNCHANGED quit

\* ZEsarUX closes the connection, because of a quit or of itself
Closed ==
  /\ socket # "closed"
  /\ socket' = "closed"
  /\ state' = IF listeners = {} THEN state ELSE "UNCONNECTED"
  /\ \/ \E t \in listeners \cap Tasks : Listener(t)
     \/ listeners \cap Tasks = {} /\ UNCHANGED <<vars, listeners, quit, hung>>
  /\ UNCHANGED <<quitting, silent>>

\* mutant: the connection is not ended
SilentOrErrorOpen ==
  /\ socket = "open"
  /\ \E t \in listeners \cap Tasks : Listener(t)
  /\ UNCHANGED <<quitting, state, socket, silent>>

\* ZEsarUX is silent for too long and the socket has the listeners of the connection: they emit an
\* error, whose listener says that the socket is unconnected, and nobody ends it.
Silent ==
  /\ socket = "open" /\ listeners = {"remote"} /\ state = "CONNECTED"
  /\ state' = "UNCONNECTED"
  /\ silent' = TRUE
  /\ UNCHANGED <<vars, quitting, socket, listeners, quit, hung>>

\* ZEsarUX is silent for too long, or there is an error, during a call: this side ends the connection and leaves the state
SilentOrError ==
  /\ socket = "open"
  /\ \E t \in listeners \cap Tasks : Listener(t)
  /\ socket' = "ended"
  /\ UNCHANGED <<quitting, state, silent>>

\* the mutex is not unlocked in time
Elapsed ==
  /\ Timeout
  /\ hung' = hung \cup {t \in Tasks : task[t] = "waiting"}
  /\ UNCHANGED <<quitting, state, socket, listeners, quit, silent>>

QuitNext ==
  \/ quitting /\ (\/ \E t \in Tasks : Quit(t) \/ Locked(t)
                  \/ Closed \/ Silent \/ SilentOrError \/ Elapsed)
  \/ ~quitting /\ Next /\ UNCHANGED socketVars

\* The event loop; and the socket closes, fails or is silent.
QuitSpec ==
  /\ QuitInit /\ [][QuitNext]_allVars
  /\ WF_allVars(quitting /\ Elapsed) /\ WF_allVars(~quitting /\ Timeout /\ UNCHANGED socketVars)
  /\ WF_allVars(\E t \in Tasks : quitting /\ Locked(t))
  /\ WF_allVars(~quitting /\ (\E t \in Tasks : Enter(t)) /\ UNCHANGED socketVars)
  /\ WF_allVars(quitting /\ (Closed \/ SilentOrError))

------------------------------------------------------------------------------
\* A call of quit that is settled leaves no open connection, whichever call and whichever event has
\* settled it; and so does one that returns at once, unless ZEsarUX was silent before.
SettledIsClosed ==
  \A t \in Tasks : /\ quit[t] = "settled" => socket # "open"
                   /\ quit[t] = "returned" => socket # "open" \/ silent

\* "... is called after the connection is disconnected": every call of quit is settled.
QuitSettles == \A t \in Tasks : quit[t] = "called" ~> quit[t] = "settled"
==============================================================================
