---------------------------- MODULE DzrpReceiver ----------------------------
(***************************************************************************)
(* DzrpBufferRemote.dataReceived: DZRP messages are put together from the  *)
(* chunks a socket delivers.  A message is a header of 4 bytes with the    *)
(* length of the payload, and the payload; chunks end anywhere.            *)
(*                                                                         *)
(* A byte is a pair <<m, k>>: the k-th byte of the m-th message.           *)
(***************************************************************************)
EXTENDS Integers, Sequences, SequencesExt

CONSTANTS
  Lengths,    \* the payload lengths of the messages the remote sends
  MaxChunk    \* bound: bytes in one chunk

VARIABLES
  sent,             \* the remote: the messages it has sent
  net,              \* bytes that are still on their way
  receivedData,
  expectedLength,
  receivingHeader,
  chunkTimer,       \* chunkTimeoutHandle is armed
  parsing,          \* dataReceived is running
  delivered,        \* the payloads receivedMsg was called with (history)
  thrown            \* receivedMsg has thrown at least once (history)

vars == <<sent, net, receivedData, expectedLength, receivingHeader, chunkTimer, parsing,
          delivered, thrown>>

HeaderLength == 4
Messages     == DOMAIN Lengths
Bytes(m)     == [k \in 1..(HeaderLength + Lengths[m]) |-> <<m, k>>]
Payload(m)   == SubSeq(Bytes(m), HeaderLength + 1, HeaderLength + Lengths[m])

(* The length that the first four bytes of a buffer encode; of bytes that  *)
(* are not a header, more than there are.                                  *)
EncodedLength(buffer) ==
  LET m == buffer[1][1]
  IN  IF SubSeq(buffer, 1, HeaderLength) = SubSeq(Bytes(m), 1, HeaderLength)
      THEN Lengths[m] ELSE Len(buffer)

Init ==
  /\ sent = 0 /\ net = <<>>
  /\ receivedData = <<>>
  /\ expectedLength = HeaderLength
  /\ receivingHeader = TRUE
  /\ chunkTimer = FALSE
  /\ parsing = FALSE
  /\ delivered = <<>>
  /\ thrown = FALSE

(* The remote sends a message.                                             *)
Send ==
  /\ sent < Len(Lengths)
  /\ sent' = sent + 1
  /\ net' = net \o Bytes(sent + 1)
  /\ UNCHANGED <<receivedData, expectedLength, receivingHeader, chunkTimer, parsing, delivered, thrown>>

(* A 'data' event appends a chunk; dataReceived looks at it.               *)
Chunk(n) ==
  /\ ~parsing
  /\ n \in 1..Len(net)
  /\ receivedData' = receivedData \o SubSeq(net, 1, n)
  /\ net' = SubSeq(net, n + 1, Len(net))
  /\ parsing' = TRUE
  /\ UNCHANGED <<sent, expectedLength, receivingHeader, chunkTimer, delivered, thrown>>

(* The header, or a message whose header is known, is not yet complete.    *)
WaitForMoreUntimed ==   \* mutant: no chunk timeout is started
  /\ parsing
  /\ Len(receivedData) < expectedLength
  /\ parsing' = FALSE
  /\ UNCHANGED <<sent, net, receivedData, expectedLength, receivingHeader, chunkTimer,
                 delivered, thrown>>

WaitForMore ==
  /\ parsing
  /\ Len(receivedData) < expectedLength
  /\ chunkTimer' = TRUE
  /\ parsing' = FALSE
  /\ UNCHANGED <<sent, net, receivedData, expectedLength, receivingHeader, delivered, thrown>>

ReadHeader ==
  /\ parsing
  /\ receivingHeader
  /\ Len(receivedData) >= expectedLength
  /\ expectedLength' = EncodedLength(receivedData) + HeaderLength
  /\ receivingHeader' = FALSE
  /\ UNCHANGED <<sent, net, receivedData, chunkTimer, parsing, delivered, thrown>>

MessageCompleteTimed ==   \* mutant: the chunk timeout is not stopped
  /\ parsing
  /\ ~receivingHeader
  /\ Len(receivedData) >= expectedLength
  /\ delivered' = Append(delivered, SubSeq(receivedData, HeaderLength + 1, expectedLength))
  /\ UNCHANGED <<sent, net, chunkTimer>>

MessageComplete ==
  /\ parsing
  /\ ~receivingHeader
  /\ Len(receivedData) >= expectedLength
  /\ chunkTimer' = FALSE
  /\ delivered' = Append(delivered, SubSeq(receivedData, HeaderLength + 1, expectedLength))
  /\ UNCHANGED <<sent, net>>

(* receivedMsg returns: what is left is parsed like a new chunk.           *)
HandleMessageDropRest ==   \* mutant: bytes of the next message are discarded
  /\ MessageComplete
  /\ receivedData' = <<>>
  /\ expectedLength' = HeaderLength
  /\ receivingHeader' = TRUE
  /\ parsing' = FALSE
  /\ UNCHANGED thrown

HandleMessage ==
  /\ MessageComplete
  /\ receivedData' = SubSeq(receivedData, expectedLength + 1, Len(receivedData))
  /\ expectedLength' = HeaderLength
  /\ receivingHeader' = TRUE
  /\ parsing' = (receivedData' # <<>>)
  /\ UNCHANGED thrown

(* receivedMsg throws: dataReceived is left before it drops the message,   *)
(* which is handled again when the next chunk comes in.                    *)
HandlerThrows ==
  /\ MessageComplete
  /\ thrown' = TRUE
  /\ parsing' = FALSE
  /\ UNCHANGED <<receivedData, expectedLength, receivingHeader>>

(* The timer reports an error and changes nothing that was received.       *)
ChunkTimeout ==
  /\ ~parsing
  /\ chunkTimer
  /\ chunkTimer' = FALSE
  /\ UNCHANGED <<sent, net, receivedData, expectedLength, receivingHeader, parsing, delivered, thrown>>

Next ==
  \/ Send
  \/ \E n \in 1..MaxChunk : Chunk(n)
  \/ WaitForMore
  \/ ReadHeader
  \/ HandleMessage
  \/ HandlerThrows
  \/ ChunkTimeout

Spec == Init /\ [][Next]_vars

-----------------------------------------------------------------------------
TypeOK ==
  /\ sent \in 0..Len(Lengths)
  /\ expectedLength \in {HeaderLength} \cup {HeaderLength + Lengths[m] : m \in Messages}
  /\ receivingHeader \in BOOLEAN
  /\ chunkTimer \in BOOLEAN
  /\ parsing \in BOOLEAN
  /\ thrown \in BOOLEAN

(* Wherever the chunks end, every payload arrives whole and in its order;  *)
(* one arrives twice only if handling it threw.  When all the bytes are in *)
(* and parsed, all the messages that were sent have been handled.          *)
DeliveredInOrder ==
  /\ \E numbers \in [1..Len(delivered) -> 1..sent] :
       /\ \A i \in 1..Len(delivered) : delivered[i] = Payload(numbers[i])
       /\ \A i \in 1..Len(delivered) :
            LET before == IF i = 1 THEN 0 ELSE numbers[i - 1]
            IN  numbers[i] = before + 1 \/ (thrown /\ numbers[i] = before)
  /\ net = <<>> /\ ~parsing /\ ~thrown => Len(delivered) = sent

(* The chunk timer runs only while a message is incomplete: it never       *)
(* reports an error of a message that was received.                        *)
TimerMeansIncomplete ==
  chunkTimer /\ ~parsing => receivedData # <<>> /\ Len(receivedData) < expectedLength

(* A message that stays incomplete is noticed: between two chunks of it    *)
(* the timer is armed, or has elapsed.                                     *)
IncompleteIsTimed ==
  [][parsing /\ ~parsing' /\ receivedData' # <<>> /\ ~thrown' => chunkTimer']_vars
=============================================================================
