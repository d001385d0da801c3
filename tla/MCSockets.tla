------------------------------ MODULE MCSockets ------------------------------
(***************************************************************************)
(* The connections to emulators for TLC: the calls of quit that take turns *)
(* with the mutex, the queue of commands of ZEsarUX, the receiver of DZRP  *)
(* messages, and the connection to MAME.  Each is explored by itself:      *)
(* "part" says which.                                                      *)
(***************************************************************************)
EXTENDS ZesaruxQuit

CONSTANTS MaxCmds, MaxRuns, MaxPauses, Lengths, MaxChunk, Continues, Pauses

\* The bounds of ZesaruxSocket count calls.
ASSUME BoundsAssumption == MaxCmds \in Nat /\ MaxRuns \in Nat
ASSUME LengthsAreNumbers == Lengths \in Seq(Nat)

VARIABLES
  part,
  crossing, queue, interruptableRunCmd, interruptableRunCmdCriticalPhase, receivedDataChunk, timer,
  lastCallQueue, sent, runs, pauses, answer, runAnswer, thrown, toEmu, running, fromEmu,
  dzrpSent, net, receivedData, expectedLength, receivingHeader, chunkTimer, parsing, delivered, handlerThrown,
  messageQueue, mameData, funcContinueResolve, script, bps, userState, toMame, fromMame, mameRuns,
  mameBps, continues, mamePauses, answers

socketQueueVars ==
  <<crossing, queue, interruptableRunCmd, interruptableRunCmdCriticalPhase, receivedDataChunk, timer,
    lastCallQueue, sent, runs, pauses, answer, runAnswer, thrown, toEmu, running, fromEmu>>

dzrpVars == <<dzrpSent, net, receivedData, expectedLength, receivingHeader, chunkTimer, parsing, delivered, handlerThrown>>
mameVars ==
  <<messageQueue, mameData, funcContinueResolve, script, bps, userState, toMame, fromMame, mameRuns,
    mameBps, continues, mamePauses, answers>>

Socket == INSTANCE ZesaruxSocket
Dzrp == INSTANCE DzrpReceiver WITH thrown <- handlerThrown, sent <- dzrpSent
Mame == INSTANCE MameGdb WITH receivedData <- mameData, runs <- continues, pauses <- mamePauses,
                              MaxRuns <- Continues, MaxPauses <- Pauses

MCInit ==
  /\ part \in {"quit", "zesarux", "dzrp", "mame"}
  /\ QuitInit /\ Socket!Init /\ Dzrp!Init /\ Mame!Init
  /\ part # "quit" => ~quitting
  /\ part # "zesarux" => ~crossing

MCNext ==
  \/ part = "quit" /\ QuitNext /\ UNCHANGED <<part, socketQueueVars, dzrpVars, mameVars>>
  \/ part = "zesarux" /\ Socket!Next /\ UNCHANGED <<part, allVars, dzrpVars, mameVars>>
  \/ part = "dzrp" /\ Dzrp!Next /\ UNCHANGED <<part, allVars, socketQueueVars, mameVars>>
  \/ part = "mame" /\ Mame!Next /\ UNCHANGED <<part, allVars, socketQueueVars, dzrpVars>>

QuitFairness ==
  /\ WF_allVars(part = "quit" /\ quitting /\ Elapsed)
  /\ WF_allVars(part = "quit" /\ ~quitting /\ Timeout /\ UNCHANGED socketVars)
  /\ WF_allVars(part = "quit" /\ \E t \in Tasks : quitting /\ Locked(t))
  /\ WF_allVars(part = "quit" /\ ~quitting /\ (\E t \in Tasks : Enter(t)) /\ UNCHANGED socketVars)
  /\ WF_allVars(part = "quit" /\ quitting /\ (Closed \/ SilentOrError))

SocketsFairness ==
  /\ WF_socketQueueVars(part = "zesarux" /\ Socket!Receive)
  /\ WF_socketQueueVars(part = "zesarux" /\ Socket!EmuLine)
  /\ WF_mameVars(part = "mame" /\ \E n \in DOMAIN fromMame : Mame!Data(n))
  /\ WF_mameVars(part = "mame" /\ Mame!MameReceives)

MCSpec ==
  /\ MCInit /\ [][MCNext]_<<part, allVars, socketQueueVars, dzrpVars, mameVars>>
  /\ QuitFairness /\ SocketsFairness

------------------------------------------------------------------------------
(* A call of quit that is settled leaves no open connection (one that      *)
(* returns at once leaves none unless ZEsarUX was silent before), and the  *)
(* mutex is as it should be.                                               *)
QuitIsTidy == TypeOK /\ SettledIsClosed

(* Unless events cross on the wire, each handler is called with its own    *)
(* answer and no command waits without a timer; and whatever crosses, an   *)
(* interruption has a run to go on with.                                   *)
OwnAnswer == Socket!TypeOK /\ Socket!OwnAnswer /\ Socket!OneByOne /\ Socket!WaitingIsTimed /\ Socket!InterruptHasRun

(* A run that commands have interrupted goes on, until it returns, and     *)
(* every command is answered.                                              *)
RunGoesOn == Socket!RunGoesOn /\ Socket!EveryCommandAnswered

(* Wherever the chunks end, every payload arrives whole and in order, and  *)
(* the chunk timer runs only while a message is incomplete.                *)
ReceivedWhole == Dzrp!TypeOK /\ Dzrp!DeliveredInOrder /\ Dzrp!TimerMeansIncomplete

(* A message that stays incomplete is noticed.                             *)
IncompleteIsTimed == Dzrp!IncompleteIsTimed

(* When the user is told of a stop MAME has stopped and has none of the    *)
(* temporary breakpoints, and the protocol is never mistaken.              *)
StoppedClean == Mame!StoppedClean

(* Every command to MAME is answered, and a stop that it has notified is   *)
(* told to the user; at worst the packet waits in the buffer for the data  *)
(* of the next one.                                                        *)
StopIsTold == Mame!StopIsTold /\ Mame!EveryCommandAnswered

MCLengths == <<1, 3, 2>>
==============================================================================
