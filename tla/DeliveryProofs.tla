--------------------------- MODULE DeliveryProofs ---------------------------
(***************************************************************************)
(* Proofs, for every set of records and header values, every retry policy  *)
(* and every set of proxy answers, of the properties of Delivery.          *)
(***************************************************************************)
EXTENDS Delivery, FiniteSetTheorems, TLAPS

-----------------------------------------------------------------------------
(* What the transports make of a record *)

\* The value a transport sends for a field of md: the field, or what the
\* headers beneath have for its name when the field is not set.
Sent(md, beneath, f) == IF md[f] # None THEN md[f] ELSE beneath[f]

\* The fields of a metadata record have their types.
LEMMA FieldTypes ==
    ASSUME NEW md \in Metadata
    PROVE  /\ md.message_id \in Value /\ md.event_type \in Value
           /\ md.headers \in Headers
           /\ \A n \in Reserved : md[n] \in Value \cup {None}
<1>1. /\ md.message_id \in Value /\ md.event_type \in Value
      /\ md.message_key \in Value \cup {None}
      /\ md.ordering_key \in Value \cup {None}
      /\ md.correlation_id \in Value \cup {None}
      /\ md.headers \in Headers
  BY DEF Metadata
<1> QED
  BY <1>1 DEF Reserved, OptionalFields

\* dict.update keeps headers headers.
LEMMA OverlayType ==
    ASSUME NEW f \in Headers, NEW g \in Headers
    PROVE  /\ Overlay(f, g) \in Headers
           /\ \A n \in Names : Overlay(f, g)[n] = IF f[n] # None THEN f[n] ELSE g[n]
BY DEF Overlay, Headers

LEMMA AsHeadersType ==
    ASSUME NEW md \in Metadata, NEW fields \in SUBSET Reserved
    PROVE  /\ AsHeaders(md, fields) \in Headers
           /\ \A n \in Names : AsHeaders(md, fields)[n] = IF n \in fields THEN md[n] ELSE None
BY FieldTypes DEF AsHeaders, Headers

\* Over HTTP the record's headers, and beneath them the endpoint's, fill the
\* fields that are not set.
LEMMA RequestCarries ==
    ASSUME NEW md \in Metadata, NEW e \in Headers
    PROVE  /\ BuildRequest(md, e) \in Headers
           /\ Overlay(md.headers, e) \in Headers
           /\ \A n \in Reserved :
                 BuildRequest(md, e)[n] = Sent(md, Overlay(md.headers, e), n)
<1> DEFINE own == AsHeaders(md, Reserved)
           beneath == Overlay(md.headers, e)
<1>1. md.headers \in Headers
  BY FieldTypes
<1>2. /\ own \in Headers
      /\ \A n \in Names : own[n] = IF n \in Reserved THEN md[n] ELSE None
  BY AsHeadersType
<1>3. beneath \in Headers
  BY <1>1, OverlayType
<1>4. BuildRequest(md, e) = Overlay(own, beneath) /\ Reserved \subseteq Names
  BY DEF BuildRequest, Names
<1> HIDE DEF own, beneath
<1>5. /\ Overlay(own, beneath) \in Headers
      /\ \A n \in Names :
            Overlay(own, beneath)[n] = IF own[n] # None THEN own[n] ELSE beneath[n]
  BY <1>2, <1>3, OverlayType
<1>6. /\ BuildRequest(md, e) \in Headers
      /\ \A n \in Reserved : BuildRequest(md, e)[n] = Sent(md, beneath, n)
  BY <1>2, <1>4, <1>5 DEF Sent
<1> QED
  BY <1>3, <1>6 DEF beneath

\* Over Kafka the record's headers do, for every field but the key.
LEMMA MessageCarries ==
    ASSUME NEW md \in Metadata
    PROVE  /\ BuildMessage(md).key = md.message_key
           /\ BuildMessage(md).headers \in Headers
           /\ \A n \in Reserved \ {"message_key"} :
                 BuildMessage(md).headers[n] = Sent(md, md.headers, n)
<1> DEFINE own == AsHeaders(md, Reserved \ {"message_key"})
<1>1. md.headers \in Headers
  BY FieldTypes
<1>2. /\ own \in Headers
      /\ \A n \in Names :
            own[n] = IF n \in Reserved \ {"message_key"} THEN md[n] ELSE None
  BY AsHeadersType
<1>3. /\ BuildMessage(md).key = md.message_key
      /\ BuildMessage(md).headers = Overlay(own, md.headers)
      /\ Reserved \subseteq Names
  BY DEF BuildMessage, Names
<1> HIDE DEF own
<1>4. /\ Overlay(own, md.headers) \in Headers
      /\ \A n \in Names : Overlay(own, md.headers)[n] =
                             IF own[n] # None THEN own[n] ELSE md.headers[n]
  BY <1>1, <1>2, OverlayType
<1> QED
  BY <1>2, <1>3, <1>4 DEF Sent

\* What any headers beneath do to a valid record: its identity and type stay,
\* and only a blank ordering key beneath makes it invalid.
LEMMA SentIsValid ==
    ASSUME NEW md \in Metadata, IsValid(md), NEW beneath \in Headers
    PROVE  /\ Sent(md, beneath, "message_id") = md.message_id
           /\ Sent(md, beneath, "event_type") = md.event_type
           /\ md.message_id # None /\ md.event_type # None
           /\ ~IsBlank(md.message_id) /\ ~IsBlank(md.event_type)
           /\ \A f \in Reserved : Sent(md, beneath, f) \in Value \cup {None}
           /\ IsBlank(Sent(md, beneath, "ordering_key")) =>
                 md.ordering_key = None /\ IsBlank(beneath["ordering_key"])
<1>1. /\ md.message_id \in Value /\ md.event_type \in Value
      /\ \A f \in Reserved : md[f] \in Value \cup {None}
  BY FieldTypes
<1>2. \A f \in Reserved : beneath[f] \in Value \cup {None}
  BY DEF Headers, Names
<1>3. \A f \in Reserved : Sent(md, beneath, f) \in Value \cup {None}
  BY <1>1, <1>2 DEF Sent
<1>4. /\ Sent(md, beneath, "message_id") = md.message_id
      /\ Sent(md, beneath, "event_type") = md.event_type
      /\ md.message_id # None /\ md.event_type # None
      /\ ~IsBlank(md.message_id) /\ ~IsBlank(md.event_type)
  BY <1>1, NoneAssumption DEF Sent, IsValid
<1>5. IsBlank(Sent(md, beneath, "ordering_key")) =>
         md.ordering_key = None /\ IsBlank(beneath["ordering_key"])
  BY DEF Sent, IsValid
<1> QED
  BY <1>3, <1>4, <1>5

\* row is what a receiver should have of the record.
Carries(row) ==
    /\ row.message_id = record.message_id
    /\ row.event_type = record.event_type
    /\ \A f \in OptionalFields :
          row[f] = IF record[f] # None THEN record[f] ELSE Leaked(f)

\* A blank ordering key among the headers, for a record that has none.
Smuggles == record.ordering_key = None /\ IsBlank(Leaked("ordering_key"))

\* The receiver of any attempt reads the record's metadata, and refuses it
\* for one reason only.
LEMMA IncomingCarries ==
    ASSUME TypeOK, NEW n \in inflight
    PROVE  /\ Incoming(n) # None => Incoming(n) \in Metadata /\ Carries(Incoming(n))
           /\ Incoming(n) = None => Smuggles
<1>1. record \in Metadata /\ IsValid(record) /\ endpoint \in Headers
  BY DeliveryAssumption DEF TypeOK
<1>2. /\ record.message_id \in Value /\ record.event_type \in Value
      /\ record.message_key \in Value \cup {None}
      /\ record.headers \in Headers
  BY <1>1 DEF Metadata
<1>3. CASE via = "http"
  <2> DEFINE h == BuildRequest(record, endpoint)
             beneath == Overlay(record.headers, endpoint)
             md == [message_id |-> h["message_id"], event_type |-> h["event_type"],
                    message_key |-> h["message_key"], ordering_key |-> h["ordering_key"],
                    correlation_id |-> h["correlation_id"], headers |-> h]
  <2>1. /\ h \in Headers /\ beneath \in Headers
        /\ \A f \in Reserved : h[f] = Sent(record, beneath, f)
    BY <1>1, RequestCarries
  <2>2. Incoming(n) = IF h["message_id"] # None /\ h["event_type"] # None /\ IsValid(md)
                      THEN md ELSE None
    BY <1>3 DEF Incoming, FromHeaders
  <2>3. \A f \in OptionalFields : Leaked(f) = beneath[f]
    <3>1. \A f \in Names : beneath[f] = IF record.headers[f] # None
                                       THEN record.headers[f] ELSE endpoint[f]
      BY <1>1, <1>2, OverlayType
    <3> QED
      BY <1>3, <3>1 DEF Leaked, Names, Reserved
  <2> HIDE DEF h, beneath
  <2>4. /\ h["message_id"] = record.message_id /\ h["event_type"] = record.event_type
        /\ record.message_id # None /\ record.event_type # None
        /\ ~IsBlank(record.message_id) /\ ~IsBlank(record.event_type)
        /\ \A f \in OptionalFields : h[f] = Sent(record, beneath, f)
        /\ \A f \in OptionalFields : h[f] \in Value \cup {None}
    BY <1>1, <2>1, SentIsValid DEF Reserved
  <2>5. md \in Metadata
    BY <1>2, <2>1, <2>4 DEF Metadata, OptionalFields
  <2>6. Carries(md)
    <3>1. \A f \in OptionalFields : md[f] = Sent(record, beneath, f)
      BY <2>4 DEF OptionalFields
    <3>2. md.message_id = record.message_id /\ md.event_type = record.event_type
      BY <2>4
    <3> HIDE DEF md
    <3> QED
      BY <2>3, <3>1, <3>2 DEF Carries, Sent
  <2>7. IsValid(md) \/ Smuggles
    <3>1. IsBlank(h["ordering_key"]) => Smuggles
      BY <1>1, <2>1, <2>3, <2>4, SentIsValid DEF Smuggles, OptionalFields
    <3> QED
      BY <2>4, <3>1 DEF IsValid
  <2>8. md # None
    BY <2>5, NoneAssumption
  <2> HIDE DEF md
  <2> QED
    BY <2>2, <2>4, <2>5, <2>6, <2>7, <2>8
<1>4. CASE via # "http"
  <2> DEFINE msg == BuildMessage(record)
             h == msg.headers
             md == [message_id |-> record.message_id, event_type |-> h["event_type"],
                    message_key |-> msg.key, ordering_key |-> h["ordering_key"],
                    correlation_id |-> h["correlation_id"], headers |-> h]
  <2>1. /\ msg.key = record.message_key /\ h \in Headers
        /\ \A f \in Reserved \ {"message_key"} : h[f] = Sent(record, record.headers, f)
    BY <1>1, MessageCarries
  <2>2. Incoming(n) = ToEnvelope(msg, OffsetId[n])
    BY <1>4 DEF Incoming
  <2>3. /\ Leaked("message_key") = None
        /\ Leaked("ordering_key") = record.headers["ordering_key"]
        /\ Leaked("correlation_id") = record.headers["correlation_id"]
    BY <1>4 DEF Leaked
  <2> HIDE DEF msg
  <2>4. /\ h["message_id"] = record.message_id /\ h["event_type"] = record.event_type
        /\ record.message_id # None /\ record.event_type # None
        /\ ~IsBlank(record.message_id) /\ ~IsBlank(record.event_type)
        /\ h["ordering_key"] = Sent(record, record.headers, "ordering_key")
        /\ h["correlation_id"] = Sent(record, record.headers, "correlation_id")
        /\ h["ordering_key"] \in Value \cup {None}
        /\ h["correlation_id"] \in Value \cup {None}
    BY <1>1, <1>2, <2>1, SentIsValid DEF Reserved, OptionalFields
  <2>5. Incoming(n) = IF h["event_type"] # None /\ IsValid(md) THEN md ELSE None
    <3>1. h["message_id"] \notin {None, Empty}
      BY <2>4 DEF IsBlank
    <3> QED
      BY <2>2, <2>4, <3>1 DEF ToEnvelope
  <2>6. md \in Metadata
    BY <1>2, <2>1, <2>4 DEF Metadata
  <2>7. Carries(md)
    <3>1. /\ md.message_key = record.message_key
          /\ md.ordering_key = Sent(record, record.headers, "ordering_key")
          /\ md.correlation_id = Sent(record, record.headers, "correlation_id")
          /\ md.message_id = record.message_id /\ md.event_type = record.event_type
      BY <2>1, <2>4
    <3> HIDE DEF md
    <3> QED
      BY <2>3, <3>1 DEF Carries, Sent, OptionalFields
  <2>8. IsValid(md) \/ Smuggles
    <3>1. IsBlank(h["ordering_key"]) => Smuggles
      BY <1>1, <1>2, <2>3, <2>4, SentIsValid DEF Smuggles
    <3> QED
      BY <2>4, <3>1 DEF IsValid
  <2>9. md # None
    BY <2>6, NoneAssumption
  <2> HIDE DEF h, md
  <2> QED
    BY <2>4, <2>5, <2>6, <2>7, <2>8, <2>9
<1> QED
  BY <1>3, <1>4

-----------------------------------------------------------------------------
(* The inductive invariant *)

\* A publish in progress belongs to a pending row, and a pending row has
\* attempts left.
ProgressInv ==
    /\ waiting => status = "pending"
    /\ status = "pending" => attempts < MaxAttempts

\* There is one row to speak of, and it is the record's.
InboxInv ==
    /\ \A row \in inbox : Carries(row)
    /\ \A r, s \in inbox : r = s

DeliveryInv ==
    /\ TypeOK
    /\ ProgressInv
    /\ InboxInv
    /\ PublishedIsReceived
    /\ AcceptedIsNotRefused
    /\ TransientIsRetried

\* Whether a row carries the record depends on what is sent alone.
LEMMA CarriesStays ==
    ASSUME UNCHANGED <<record, via, endpoint>>, NEW row, Carries(row)
    PROVE  Carries(row)'
BY DEF Carries, Leaked

\* Storing what the receiver reads keeps one row: a second receipt has the
\* message_id of the first.
LEMMA StoredKeeps ==
    ASSUME TypeOK, InboxInv, NEW n \in inflight, Incoming(n) # None,
           inbox' = Stored(Incoming(n)), UNCHANGED <<record, via, endpoint>>
    PROVE  /\ InboxInv' /\ inbox' # {} /\ inbox' \subseteq Metadata
<1> DEFINE md == Incoming(n)
<1>1. md \in Metadata /\ Carries(md)
  BY IncomingCarries
<1>2. CASE \E row \in inbox : row.message_id = md.message_id
  <2>1. inbox' = inbox /\ inbox # {}
    BY <1>2 DEF Stored
  <2> QED
    BY <2>1, CarriesStays DEF InboxInv, TypeOK
<1>3. CASE ~\E row \in inbox : row.message_id = md.message_id
  <2>1. \A row \in inbox : row.message_id = md.message_id
    BY <1>1 DEF InboxInv, Carries
  <2>2. inbox = {}
    BY <1>3, <2>1
  <2>3. inbox' = {md}
    BY <1>3, <2>2 DEF Stored
  <2> HIDE DEF md
  <2> QED
    BY <1>1, <2>3, CarriesStays DEF InboxInv
<1> QED
  BY <1>2, <1>3

\* What classify_response makes of the answers the publisher can see.
LEMMA AnswersClassified ==
    /\ ClassifyResponse(Accepted) = "published"
    /\ ClassifyResponse(Refused) = "terminal"
    /\ ClassifyResponse(Broken) = "retryable"
    /\ \A a \in TransientAnswers : ClassifyResponse(a) = "retryable"
    /\ \A a \in FinalAnswers : ClassifyResponse(a) = "terminal"
<1>1. \A a \in TransientAnswers : a \in Nat /\ a \notin 200..299
                                   /\ (a \in {408, 429} \/ a >= 500)
  BY DeliveryAssumption
<1>2. \A a \in FinalAnswers : a \in Nat /\ a \notin 200..299
                               /\ ~(a \in {408, 429} \/ a >= 500)
  BY DeliveryAssumption
<1> QED
  BY <1>1, <1>2 DEF ClassifyResponse, Accepted, Refused, Broken

\* Recording an outcome: which status follows from which kind.
LEMMA OutcomeRecorded ==
    ASSUME TypeOK, ProgressInv, NEW kind \in {"published", "terminal", "retryable"},
           Outcome(kind)
    PROVE  /\ status' \in {"pending", "published", "failed"}
           /\ attempts' \in 0..MaxAttempts
           /\ waiting' = FALSE
           /\ ProgressInv'
           /\ status = "pending"
           /\ status' = "published" <=> kind = "published"
           /\ status' = "failed" => kind = "terminal" \/ attempts' >= MaxAttempts
<1>1. waiting /\ status = "pending" /\ attempts < MaxAttempts /\ waiting' = FALSE
  BY DEF Outcome, ProgressInv
<1>2. MaxAttempts \in Nat /\ attempts \in Nat
  BY RetryPolicyAssumption DEF TypeOK
<1>3. CASE kind = "published"
  <2>1. status' = "published" /\ attempts' = attempts
    BY <1>3 DEF Outcome
  <2> QED
    BY <1>1, <1>2, <1>3, <2>1 DEF ProgressInv
<1>4. CASE kind = "terminal"
  <2>1. status' = "failed" /\ attempts' = attempts + 1
    BY <1>4 DEF Outcome
  <2> QED
    BY <1>1, <1>2, <1>4, <2>1 DEF ProgressInv
<1>5. CASE kind = "retryable"
  <2>1. /\ status' = IF ReachesCeiling(attempts) THEN "failed" ELSE "pending"
        /\ attempts' = attempts + 1
    BY <1>5 DEF Outcome
  <2> QED
    BY <1>1, <1>2, <1>5, <2>1 DEF ProgressInv, ReachesCeiling
<1> QED
  BY <1>3, <1>4, <1>5

LEMMA DeliveryInit == Init => DeliveryInv
<1> SUFFICES ASSUME Init PROVE DeliveryInv
  OBVIOUS
<1>1. 0 \in 0..MaxAttempts /\ 0 < MaxAttempts
  BY RetryPolicyAssumption
<1>2. TypeOK
  BY <1>1, Zenon DEF Init, TypeOK
<1>3. ProgressInv /\ InboxInv
  BY <1>1 DEF Init, ProgressInv, InboxInv
<1>4. PublishedIsReceived /\ AcceptedIsNotRefused /\ TransientIsRetried
  BY DEF Init, PublishedIsReceived, AcceptedIsNotRefused, TransientIsRetried
<1> QED
  BY <1>2, <1>3, <1>4 DEF DeliveryInv

LEMMA PublishKeeps == DeliveryInv /\ Publish => DeliveryInv'
<1> SUFFICES ASSUME DeliveryInv, Publish PROVE DeliveryInv'
  OBVIOUS
<1>1. attempts \in 0..(MaxAttempts - 1)
  BY RetryPolicyAssumption DEF DeliveryInv, TypeOK, ProgressInv, Publish
<1>2. TypeOK'
  BY <1>1 DEF DeliveryInv, TypeOK, Publish
<1>3. ProgressInv'
  BY DEF DeliveryInv, ProgressInv, Publish
<1>4. InboxInv'
  BY CarriesStays DEF DeliveryInv, InboxInv, Publish
<1> QED
  BY <1>2, <1>3, <1>4
     DEF DeliveryInv, Publish, PublishedIsReceived, AcceptedIsNotRefused, Leaked,
         TransientIsRetried

\* The endpoint stores before it answers 202, and answers 400 only when it
\* refuses: a late answer changes nothing but the inbox.
LEMMA HandleKeeps ==
    ASSUME DeliveryInv, NEW n \in inflight, NEW answer \in {Accepted, Refused, Broken},
           Handle(n, answer)
    PROVE  DeliveryInv'
<1> USE DEF DeliveryInv
<1>1. /\ UNCHANGED <<record, via, endpoint, turnedDown>>
      /\ via = "http"
      /\ inflight' = inflight \ {n}
      /\ refused' = (refused \/ Incoming(n) = None)
  BY DEF Handle
<1>2. \/ inbox' = inbox /\ answer # Accepted
      \/ Incoming(n) # None /\ inbox' = Stored(Incoming(n))
  <2>1. Accepted # Refused /\ Accepted # Broken
    BY DEF Accepted, Refused, Broken
  <2> QED
    BY <2>1 DEF Handle
<1>3. answer = Refused => Incoming(n) = None
  BY DEF Handle, Accepted, Refused, Broken
<1>4. InboxInv' /\ inbox' \subseteq Metadata /\ (inbox # {} => inbox' # {})
      /\ (answer = Accepted => inbox' # {})
  BY <1>1, <1>2, StoredKeeps, CarriesStays DEF InboxInv, TypeOK
<1>5. AcceptedIsNotRefused'
  BY <1>1, IncomingCarries DEF AcceptedIsNotRefused, Leaked, Smuggles
<1>6. CASE UNCHANGED <<waiting, attempts, status>>
  <2>1. TypeOK' /\ ProgressInv'
    BY <1>1, <1>4, <1>6 DEF TypeOK, ProgressInv
  <2>2. PublishedIsReceived' /\ TransientIsRetried'
    BY <1>1, <1>4, <1>6 DEF PublishedIsReceived, TransientIsRetried
  <2> QED
    BY <1>4, <1>5, <2>1, <2>2
<1>7. CASE Outcome(ClassifyResponse(answer))
  <2>1. ClassifyResponse(answer) \in {"published", "terminal", "retryable"}
    BY AnswersClassified
  <2>2. /\ ClassifyResponse(answer) = "published" => answer = Accepted
        /\ ClassifyResponse(answer) = "terminal" => answer = Refused
    BY AnswersClassified
  <2>3. /\ status' \in {"pending", "published", "failed"}
        /\ attempts' \in 0..MaxAttempts
        /\ waiting' = FALSE
        /\ ProgressInv'
        /\ status' = "published" <=> ClassifyResponse(answer) = "published"
        /\ status' = "failed" =>
              ClassifyResponse(answer) = "terminal" \/ attempts' >= MaxAttempts
    BY <1>7, <2>1, OutcomeRecorded
  <2>4. TypeOK'
    BY <1>1, <1>4, <2>3 DEF TypeOK
  <2>5. PublishedIsReceived'
    BY <1>4, <2>2, <2>3 DEF PublishedIsReceived
  <2>6. TransientIsRetried'
    BY <1>1, <1>3, <2>2, <2>3 DEF TransientIsRetried
  <2> QED
    BY <1>4, <1>5, <2>3, <2>4, <2>5, <2>6
<1> QED
  BY <1>6, <1>7 DEF Handle

LEMMA ProxyAnswerKeeps ==
    ASSUME DeliveryInv, NEW answer \in TransientAnswers \cup FinalAnswers,
           ProxyAnswer(answer)
    PROVE  DeliveryInv'
<1> USE DEF DeliveryInv
<1>1. /\ UNCHANGED <<record, via, endpoint, inbox, refused>>
      /\ inflight' = inflight \ {attempts}
      /\ turnedDown' = (turnedDown \/ answer \in FinalAnswers)
      /\ Outcome(ClassifyResponse(answer))
  BY DEF ProxyAnswer
<1>2. /\ ClassifyResponse(answer) \in {"terminal", "retryable"}
      /\ ClassifyResponse(answer) = "terminal" => answer \in FinalAnswers
  BY AnswersClassified
<1>3. /\ status' \in {"pending", "published", "failed"}
      /\ attempts' \in 0..MaxAttempts
      /\ waiting' = FALSE
      /\ ProgressInv'
      /\ status' # "published"
      /\ status' = "failed" =>
            ClassifyResponse(answer) = "terminal" \/ attempts' >= MaxAttempts
  BY <1>1, <1>2, OutcomeRecorded
<1>4. TypeOK'
  BY <1>1, <1>3 DEF TypeOK
<1>5. InboxInv'
  BY <1>1, CarriesStays DEF InboxInv
<1> QED
  BY <1>1, <1>2, <1>3, <1>4, <1>5
     DEF PublishedIsReceived, AcceptedIsNotRefused, Leaked, TransientIsRetried

LEMMA AcknowledgeKeeps == DeliveryInv /\ Acknowledge => DeliveryInv'
<1> SUFFICES ASSUME DeliveryInv, Acknowledge PROVE DeliveryInv'
  OBVIOUS
<1> USE DEF DeliveryInv
<1>1. /\ UNCHANGED <<record, via, endpoint, inflight, inbox, refused, turnedDown>>
      /\ via = "kafka" /\ attempts \in inflight
      /\ Outcome("published")
  BY DEF Acknowledge
<1>2. /\ status' = "published"
      /\ attempts' \in 0..MaxAttempts
      /\ waiting' = FALSE
      /\ ProgressInv'
  BY <1>1, OutcomeRecorded
<1>3. TypeOK'
  BY <1>1, <1>2 DEF TypeOK
<1>4. InboxInv'
  BY <1>1, CarriesStays DEF InboxInv
<1> QED
  BY <1>1, <1>2, <1>3, <1>4
     DEF PublishedIsReceived, AcceptedIsNotRefused, Leaked, TransientIsRetried

LEMMA SendFailsKeeps ==
    ASSUME DeliveryInv, NEW lost \in BOOLEAN, SendFails(lost)
    PROVE  DeliveryInv'
<1> USE DEF DeliveryInv
<1>1. /\ UNCHANGED <<record, via, endpoint, inbox, refused, turnedDown>>
      /\ inflight' \subseteq inflight
      /\ Outcome("retryable")
  BY DEF SendFails
<1>2. /\ status' \in {"pending", "published", "failed"}
      /\ attempts' \in 0..MaxAttempts
      /\ waiting' = FALSE
      /\ ProgressInv'
      /\ status' # "published"
      /\ status' = "failed" => attempts' >= MaxAttempts
  BY <1>1, OutcomeRecorded
<1>3. TypeOK'
  BY <1>1, <1>2 DEF TypeOK
<1>4. InboxInv'
  BY <1>1, CarriesStays DEF InboxInv
<1> QED
  BY <1>1, <1>2, <1>3, <1>4
     DEF PublishedIsReceived, AcceptedIsNotRefused, Leaked, TransientIsRetried

\* A message leaves the log only for the inbox.
LEMMA ConsumeKeeps ==
    ASSUME DeliveryInv, NEW n \in inflight, Consume(n)
    PROVE  DeliveryInv'
<1> USE DEF DeliveryInv
<1>1. UNCHANGED <<record, via, endpoint, status, attempts, waiting, turnedDown>>
  BY DEF Consume
<1>2. CASE Incoming(n) # None
  <2>1. /\ inbox' = Stored(Incoming(n)) /\ inflight' = inflight \ {n}
        /\ refused' = refused
    BY <1>2 DEF Consume
  <2>2. InboxInv' /\ inbox' # {} /\ inbox' \subseteq Metadata
    BY <1>1, <1>2, <2>1, StoredKeeps
  <2>3. TypeOK' /\ ProgressInv'
    BY <1>1, <2>1, <2>2 DEF TypeOK, ProgressInv
  <2> QED
    BY <1>1, <2>1, <2>2, <2>3
       DEF PublishedIsReceived, AcceptedIsNotRefused, Leaked, TransientIsRetried
<1>3. CASE Incoming(n) = None
  <2>1. refused' = TRUE /\ inbox' = inbox /\ inflight' = inflight
    BY <1>3 DEF Consume
  <2>2. Smuggles
    BY <1>3, IncomingCarries
  <2>3. TypeOK' /\ ProgressInv'
    BY <1>1, <2>1 DEF TypeOK, ProgressInv
  <2>4. InboxInv'
    BY <1>1, <2>1, CarriesStays DEF InboxInv
  <2> QED
    BY <1>1, <2>1, <2>2, <2>3, <2>4
       DEF PublishedIsReceived, AcceptedIsNotRefused, Leaked, TransientIsRetried, Smuggles
<1> QED
  BY <1>2, <1>3

LEMMA DeliveryNext == DeliveryInv /\ [Next]_vars => DeliveryInv'
<1> SUFFICES ASSUME DeliveryInv, [Next]_vars PROVE DeliveryInv'
  OBVIOUS
<1>1. CASE UNCHANGED vars
  <2>1. InboxInv'
    BY <1>1, CarriesStays DEF vars, DeliveryInv, InboxInv
  <2> QED
    BY <1>1, <2>1 DEF vars, DeliveryInv, TypeOK, ProgressInv, PublishedIsReceived,
                     AcceptedIsNotRefused, Leaked, TransientIsRetried
<1>2. CASE Publish
  BY <1>2, PublishKeeps
<1>3. CASE \E n \in inflight, answer \in {Accepted, Refused, Broken} : Handle(n, answer)
  BY <1>3, HandleKeeps
<1>4. CASE \E answer \in TransientAnswers \cup FinalAnswers : ProxyAnswer(answer)
  BY <1>4, ProxyAnswerKeeps
<1>5. CASE Acknowledge
  BY <1>5, AcknowledgeKeeps
<1>6. CASE \E lost \in BOOLEAN : SendFails(lost)
  BY <1>6, SendFailsKeeps
<1>7. CASE \E n \in inflight : Consume(n)
  BY <1>7, ConsumeKeeps
<1> QED
  BY <1>1, <1>2, <1>3, <1>4, <1>5, <1>6, <1>7 DEF Next

LEMMA DeliveryInvHolds == Spec => []DeliveryInv
BY DeliveryInit, DeliveryNext, PTL DEF Spec

-----------------------------------------------------------------------------
(* The theorems *)

\* For every set of records, transport and retry policy, every variable
\* stays in its type: attempts within max_attempts, and every inbox row
\* well-formed metadata.
THEOREM DeliveryTypeCorrect == Spec => []TypeOK
BY DeliveryInvHolds, PTL DEF DeliveryInv

\* A row says published only if the receiver has it, or the broker still has
\* it for the receiver, however attempts, late requests, lost answers and
\* proxies interleave.
THEOREM PublishedIsReceivedHolds == Spec => []PublishedIsReceived
BY DeliveryInvHolds, PTL DEF DeliveryInv

\* Any number of attempts and late arrivals leave one inbox row.
THEOREM OneInboxRowHolds == Spec => []OneInboxRow
<1>1. DeliveryInv => OneInboxRow
  <2> SUFFICES ASSUME DeliveryInv PROVE OneInboxRow
    OBVIOUS
  <2>1. CASE inbox = {}
    BY <2>1, FS_EmptySet DEF OneInboxRow
  <2>2. CASE inbox # {}
    <3>1. PICK row : inbox = {row}
      BY <2>2 DEF DeliveryInv, InboxInv
    <3>2. Cardinality({row}) = 1
      BY FS_Singleton, Zenon
    <3> QED
      BY <3>1, <3>2 DEF OneInboxRow
  <2> QED
    BY <2>1, <2>2
<1> QED
  BY <1>1, DeliveryInvHolds, PTL

\* The inbox row carries the record's metadata over both transports, whatever
\* the record's and the endpoint's headers say, reserved names included: such
\* a header gets through only for a field that is not set.
THEOREM MetadataSurvivesHolds == Spec => []MetadataSurvives
<1>1. DeliveryInv => MetadataSurvives
  BY DEF DeliveryInv, InboxInv, Carries, MetadataSurvives
<1> QED
  BY <1>1, DeliveryInvHolds, PTL

\* The receiving inbox refuses a row the outbox accepted for one reason only,
\* a blank ordering key among the headers of the record or, over HTTP, of its
\* endpoint, for a message without one.
THEOREM AcceptedIsNotRefusedHolds == Spec => []AcceptedIsNotRefused
BY DeliveryInvHolds, PTL DEF DeliveryInv

\* A row is given up only when a receiver or a proxy turned it down for good
\* or after max_attempts attempts, for every set of proxy answers.
THEOREM TransientIsRetriedHolds == Spec => []TransientIsRetried
BY DeliveryInvHolds, PTL DEF DeliveryInv
=============================================================================
