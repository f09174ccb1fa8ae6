------------------------------ MODULE Delivery ------------------------------
(***************************************************************************)
(* One message from an outbox row to the inbox of another service, over    *)
(* HTTP (HttpOutboxPublisher, HttpInboxEndpoint) or Kafka                  *)
(* (KafkaOutboxPublisher, KafkaInboxConsumer).                             *)
(*                                                                         *)
(* The network loses and delays: an attempt may fail at the publisher      *)
(* although its request arrives, even after a later attempt; an answer may *)
(* be lost; a proxy may answer in the endpoint's place.  What the broker   *)
(* acknowledged stays in its log.  The outbox runner (OutboxRunner) turns  *)
(* each outcome into a new attempt or a final status, and the receiving    *)
(* inbox stores one row per message_id (InboxReceipt).                     *)
(***************************************************************************)
EXTENDS Message, Retry, FiniteSets

CONSTANTS Records,           \* metadata of the rows to deliver
          EndpointHeaders,   \* HttpEndpoint.headers of the endpoints there may be
          OffsetId,          \* topic:partition:offset of each attempt's message
          TransientAnswers,  \* statuses of a proxy that mean "try again"
          FinalAnswers       \* statuses of a proxy that mean "never"

ASSUME DeliveryAssumption ==
    /\ \A r \in Records : r \in Metadata /\ IsValid(r)
    /\ EndpointHeaders \subseteq Headers
    /\ OffsetId \in [0..MaxAttempts -> Text]
    /\ TransientAnswers \subseteq {408, 429} \cup (500..599)
    /\ FinalAnswers \subseteq (300..499) \ {408, 429}

VARIABLES
    record,    \* the outbox row's metadata
    via,       \* "http" or "kafka"
    endpoint,  \* headers of the endpoint registered for the row's event type
    status,    \* the outbox row's status
    attempts,  \* the outbox row's attempts
    waiting,   \* a publish is waiting for its answer
    inflight,  \* attempts whose request the receiver has not handled yet
    inbox,     \* metadata of the receiver's rows
    refused,   \* history: the receiver found the message invalid
    turnedDown \* history: a proxy gave a final answer

vars == <<record, via, endpoint, status, attempts, waiting, inflight, inbox,
          refused, turnedDown>>

Init ==
    /\ record \in Records
    /\ via \in {"http", "kafka"}
    /\ endpoint \in EndpointHeaders
    /\ status = "pending"
    /\ attempts = 0
    /\ waiting = FALSE
    /\ inflight = {}
    /\ inbox = {}
    /\ refused = FALSE
    /\ turnedDown = FALSE

\* The publisher sends the row; attempts are numbered by the row's counter.
Publish ==
    /\ status = "pending"
    /\ ~waiting
    /\ waiting' = TRUE
    /\ inflight' = inflight \cup {attempts}
    /\ UNCHANGED <<record, via, endpoint, status, attempts, inbox, refused, turnedDown>>

\* publish returns an outcome and the runner records it.
Outcome(kind) ==
    /\ waiting
    /\ waiting' = FALSE
    /\ attempts' = IF kind = "published" THEN attempts ELSE attempts + 1
    /\ status' = CASE kind = "published" -> "published"
                   [] kind = "terminal" -> "failed"
                   [] kind = "retryable" ->
                         IF ReachesCeiling(attempts) THEN "failed" ELSE "pending"

\* What the receiver makes of attempt n, None when it does not validate.
Incoming(n) ==
    IF via = "http" THEN FromHeaders(BuildRequest(record, endpoint))
                    ELSE ToEnvelope(BuildMessage(record), OffsetId[n])

\* save_received: the first receipt of a message_id stays.
Stored(md) ==
    IF \E row \in inbox : row.message_id = md.message_id
    THEN inbox ELSE inbox \cup {md}

\* The statuses make_inbox_endpoint answers with.
Accepted == 202
Refused == 400
Broken == 500

\* The endpoint handles attempt n.  Its answer counts if the publisher is
\* still waiting for that attempt, and may be lost even so.
Handle(n, answer) ==
    /\ via = "http"
    /\ n \in inflight
    /\ inflight' = inflight \ {n}
    /\ \/ Incoming(n) = None /\ answer = Refused /\ UNCHANGED inbox
       \/ Incoming(n) # None /\ answer = Broken /\ UNCHANGED inbox
       \/ Incoming(n) # None /\ answer = Accepted /\ inbox' = Stored(Incoming(n))
    /\ refused' = (refused \/ Incoming(n) = None)
    /\ \/ n = attempts /\ Outcome(ClassifyResponse(answer))
       \/ UNCHANGED <<waiting, attempts, status>>
    /\ UNCHANGED <<record, via, endpoint, turnedDown>>

\* A proxy answers in the endpoint's place.
ProxyAnswer(answer) ==
    /\ via = "http"
    /\ attempts \in inflight
    /\ inflight' = inflight \ {attempts}
    /\ Outcome(ClassifyResponse(answer))
    /\ turnedDown' = (turnedDown \/ answer \in FinalAnswers)
    /\ UNCHANGED <<record, via, endpoint, inbox, refused>>

\* The broker acknowledges the message, which is in the log for good.
Acknowledge ==
    /\ via = "kafka"
    /\ attempts \in inflight
    /\ Outcome("published")
    /\ UNCHANGED <<record, via, endpoint, inflight, inbox, refused, turnedDown>>

\* client.send raises: what was sent is lost, or still on its way.
SendFails(lost) ==
    /\ Outcome("retryable")
    /\ inflight' = IF lost THEN inflight \ {attempts} ELSE inflight
    /\ UNCHANGED <<record, via, endpoint, inbox, refused, turnedDown>>

\* The Kafka consumer stores a message from the log; an invalid one raises
\* and is polled again forever (KafkaConsumer).
Consume(n) ==
    /\ via = "kafka"
    /\ n \in inflight
    /\ \/ Incoming(n) # None /\ inbox' = Stored(Incoming(n)) /\ inflight' = inflight \ {n}
                          /\ UNCHANGED refused
       \/ Incoming(n) = None /\ refused' = TRUE /\ UNCHANGED <<inbox, inflight>>
    /\ UNCHANGED <<record, via, endpoint, status, attempts, waiting, turnedDown>>

Next ==
    \/ Publish
    \/ \E n \in inflight, answer \in {Accepted, Refused, Broken} : Handle(n, answer)
    \/ \E answer \in TransientAnswers \cup FinalAnswers : ProxyAnswer(answer)
    \/ Acknowledge
    \/ \E lost \in BOOLEAN : SendFails(lost)
    \/ \E n \in inflight : Consume(n)

Spec == Init /\ [][Next]_vars

-----------------------------------------------------------------------------
(* Properties *)

\* Every variable stays in its type.
TypeOK ==
    /\ record \in Records
    /\ via \in {"http", "kafka"}
    /\ endpoint \in EndpointHeaders
    /\ status \in {"pending", "published", "failed"}
    /\ attempts \in 0..MaxAttempts
    /\ waiting \in BOOLEAN
    /\ inflight \subseteq 0..(MaxAttempts - 1)
    /\ inbox \subseteq Metadata
    /\ refused \in BOOLEAN
    /\ turnedDown \in BOOLEAN

\* A row says published only if the receiver has it, or, over Kafka, the
\* broker still has it for the receiver.
PublishedIsReceived ==
    status = "published" => inbox # {} \/ (via = "kafka" /\ inflight # {})

\* Attempts that were retried after they had arrived, and requests that
\* arrive late, leave one inbox row.
OneInboxRow == Cardinality(inbox) <= 1

\* What the receiver reads for field f when the record leaves it None: the
\* header of that name, if the record's own headers have one, or else, over
\* HTTP, the endpoint's.
Leaked(f) ==
    IF via = "http"
    THEN IF record.headers[f] # None THEN record.headers[f] ELSE endpoint[f]
    ELSE IF f = "message_key" THEN None ELSE record.headers[f]

\* The inbox row carries the record's metadata: the identity and the type
\* always, an optional field whenever it is set.  A field that is not set
\* takes over a header of the reserved name, such as one forwarded from a
\* message received earlier or one of the HTTP endpoint; this is the only
\* difference.
MetadataSurvives ==
    \A row \in inbox :
        /\ row.message_id = record.message_id
        /\ row.event_type = record.event_type
        /\ \A f \in OptionalFields :
              row[f] = IF record[f] # None THEN record[f] ELSE Leaked(f)

\* A row the outbox accepted is never refused by a receiving inbox, unless its
\* headers or its endpoint's smuggle a blank ordering key into a message
\* without one.
AcceptedIsNotRefused ==
    refused => record.ordering_key = None /\ IsBlank(Leaked("ordering_key"))

\* A row is given up only when a receiver or a proxy turned it down for good
\* or after max_attempts attempts: lost, slow and overloaded are retried.
TransientIsRetried ==
    status = "failed" => refused \/ turnedDown \/ attempts >= MaxAttempts
=============================================================================
