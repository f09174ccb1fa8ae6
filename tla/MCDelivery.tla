----------------------------- MODULE MCDelivery -----------------------------
(* A small instance of Delivery for TLC.                                    *)
EXTENDS Delivery

\* Optional fields set or not, headers absent, forwarded or blank.
MCRecords ==
    {[message_id |-> "id", event_type |-> "type", message_key |-> key,
      ordering_key |-> ord, correlation_id |-> cor, headers |-> h] :
        key \in {None, "new"}, ord \in {None, "new"}, cor \in {None, "new"},
        h \in {f \in [Names -> {None, "old", Blank}] :
                  f["event_type"] = None /\ f["other"] = "old"}}

MCOffsetId == [n \in 0..MaxAttempts |-> <<"t:0:0", "t:0:1", "t:0:2">>[n + 1]]

\* No reserved name, every one, or a blank ordering key only.
MCEndpointHeaders ==
    {[n \in Names |-> IF n = "other" THEN "static" ELSE None],
     [n \in Names |-> "static"],
     [n \in Names |-> IF n = "ordering_key" THEN Blank ELSE None]}
=============================================================================
