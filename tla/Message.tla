------------------------------ MODULE Message ------------------------------
(***************************************************************************)
(* Message metadata (pactix/message.py) and how the HTTP and the Kafka     *)
(* transport carry it (pactix/transport/http, pactix/transport/kafka).     *)
(*                                                                         *)
(* Headers are a function of header names; a name that is not in the dict  *)
(* maps to None.  A reserved name stands for the transport's own spelling: *)
(* "ordering_key" is x-pactix-ordering-key over HTTP (which is not case    *)
(* sensitive: from_headers lower-cases) and ordering_key over Kafka.       *)
(* Payload, content-type, occurred_at and the body of a response are left  *)
(* out: they play no part in delivery.                                     *)
(***************************************************************************)
EXTENDS Naturals

CONSTANTS Text,   \* strings that are not blank
          Empty,  \* ''
          Blank,  \* white space only
          None

Value == Text \cup {Empty, Blank}

OptionalFields == {"message_key", "ordering_key", "correlation_id"}
Reserved == {"message_id", "event_type"} \cup OptionalFields
Names == Reserved \cup {"other"}

Headers == [Names -> Value \cup {None}]

Metadata == [message_id     : Value,
             event_type     : Value,
             message_key    : Value \cup {None},
             ordering_key   : Value \cup {None},
             correlation_id : Value \cup {None},
             headers        : Headers]

\* None is neither a string nor the metadata of a message.
ASSUME NoneAssumption == None \notin Value /\ None \notin Metadata

IsBlank(v) == v \in {Empty, Blank}

\* MessageMetadata.validate, called when the envelope is built.
IsValid(md) ==
    /\ ~IsBlank(md.message_id)
    /\ ~IsBlank(md.event_type)
    /\ ~IsBlank(md.ordering_key)

\* dict(g) updated with the entries of f.
Overlay(f, g) == [n \in Names |-> IF f[n] # None THEN f[n] ELSE g[n]]

\* The fields of md a transport writes as headers, when they are not None.
AsHeaders(md, fields) == [n \in Names |-> IF n \in fields THEN md[n] ELSE None]

-----------------------------------------------------------------------------
(* HTTP *)

\* Mutants of BuildRequest: the record's headers win over the metadata; the
\* endpoint's are applied last.
BuildRequest_HeadersWin(md, static) ==
    Overlay(md.headers, Overlay(AsHeaders(md, Reserved), static))
BuildRequest_EndpointWins(md, static) ==
    Overlay(static, Overlay(AsHeaders(md, Reserved), md.headers))

\* HttpOutboxPublisher.build_request
BuildRequest(md, static) ==
    Overlay(AsHeaders(md, Reserved), Overlay(md.headers, static))

\* HttpInboundMessage.from_headers and to_envelope; None when they raise.
FromHeaders(h) ==
    LET md == [message_id |-> h["message_id"], event_type |-> h["event_type"],
               message_key |-> h["message_key"], ordering_key |-> h["ordering_key"],
               correlation_id |-> h["correlation_id"], headers |-> h]
    IN  IF h["message_id"] # None /\ h["event_type"] # None /\ IsValid(md)
        THEN md ELSE None

\* Mutants of ClassifyResponse: a redirect is a success; every 4xx is terminal.
ClassifyResponse_RedirectIsSuccess(status) ==
    CASE status \in 200..399 -> "published"
      [] status \in {408, 429} \/ status >= 500 -> "retryable"
      [] OTHER -> "terminal"
ClassifyResponse_All4xxTerminal(status) ==
    CASE status \in 200..299 -> "published"
      [] status >= 500 -> "retryable"
      [] OTHER -> "terminal"

\* HttpOutboxPublisher.classify_response
ClassifyResponse(status) ==
    CASE status \in 200..299 -> "published"
      [] status \in {408, 429} \/ status >= 500 -> "retryable"
      [] OTHER -> "terminal"

-----------------------------------------------------------------------------
(* Kafka *)

\* KafkaOutboxPublisher.build_message: message_key is the Kafka key.
BuildMessage(md) ==
    [key |-> md.message_key,
     headers |-> Overlay(AsHeaders(md, Reserved \ {"message_key"}), md.headers)]

\* Mutant of ToEnvelope: the message is identified by its offset.
ToEnvelope_OffsetIdentity(msg, fallback) ==
    [message_id |-> fallback, event_type |-> msg.headers["event_type"],
     message_key |-> msg.key, ordering_key |-> msg.headers["ordering_key"],
     correlation_id |-> msg.headers["correlation_id"], headers |-> msg.headers]

\* KafkaInboundMessage.to_envelope; None when it raises.  An absent or empty
\* message_id falls back to topic:partition:offset.
ToEnvelope(msg, fallback) ==
    LET h == msg.headers
        md == [message_id |-> IF h["message_id"] \in {None, Empty}
                              THEN fallback ELSE h["message_id"],
               event_type |-> h["event_type"], message_key |-> msg.key,
               ordering_key |-> h["ordering_key"],
               correlation_id |-> h["correlation_id"], headers |-> h]
    IN  IF h["event_type"] # None /\ IsValid(md) THEN md ELSE None
=============================================================================
