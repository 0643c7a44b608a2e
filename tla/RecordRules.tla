----------------------------- MODULE RecordRules -----------------------------
(***************************************************************************)
(* The two sets of record rules: the Spark columns the job runs            *)
(* (spark_streaming_job.py) and the Python functions the tests exercise    *)
(* (data_quality.py: validate_json_string, which the job does not call).   *)
(*                                                                         *)
(* A value is the class of texts the rules tell apart. "spark_only" and    *)
(* "python_only" are the texts that only one side reads: timestamps        *)
(* "2026-06" and "20260611", amounts "1d" and "1_000". "huge" and           *)
(* "-huge" are JSON integers of more than 308 digits, beyond a double.     *)
(***************************************************************************)
EXTENDS Integers

Ids == {"none", "empty", "blank", "text"}
Times == {"none", "empty", "blank", "iso", "spark_only", "python_only", "junk"}
Amounts == {"none", "empty", "blank", "nonneg", "negative", "nan",
            "spark_only", "python_only", "huge", "-huge", "junk"}

IdFields == {"event_id", "user_id", "account_id", "event_type"}

\* The order in which both sides look at the fields; a reason names its field.
Order ==
    <<"event_id", "user_id", "account_id", "event_type", "event_timestamp", "amount">>
Fields == IdFields \cup {"event_timestamp", "amount"}

Records == [event_id : Ids, user_id : Ids, account_id : Ids, event_type : Ids,
            event_timestamp : Times, amount : Amounts]
NoFields == [f \in Fields |-> "none"]

\* "lenient": only Spark's parser takes the text (single quotes, say);
\* "broken": a syntax error; "other": JSON, but no object.
Payloads ==
    [text : {"object", "lenient", "broken"}, record : Records]
        \cup [text : {"whitespace", "other", "{}"}, record : {NoFields}]

Reasons == {Order[i] : i \in 1..6} \cup {"malformed_json", "raises", "valid"}

FirstOf(flagged) ==
    IF flagged = {} THEN "valid"
    ELSE Order[CHOOSE i \in 1..6 : /\ Order[i] \in flagged
                                   /\ \A j \in 1..(i - 1) : Order[j] \notin flagged]

-----------------------------------------------------------------------------
(* Spark                                                                   *)

\* from_json with its default mode, PERMISSIVE, as the set of structs it may
\* return, each a set of at most one record: only a text without any token, or
\* null, gives a null struct. What it could not parse has null fields; how many
\* of the fields before a syntax error survive is left open.
FromJson(p) ==
    CASE p.text = "whitespace" -> {{}}
      [] p.text \in {"object", "lenient"} -> {{p.record}}
      [] p.text = "broken" ->
            {{[f \in Fields |-> IF f \in S THEN p.record[f] ELSE "none"]} : S \in SUBSET Fields}
      [] p.text = "{}" -> {{NoFields}}
      [] p.text = "other" -> {{}, {NoFields}}

\* Wrong: the comparison with the empty string is dropped.
WrongSparkFlags(r) ==
    {f \in IdFields : r[f] = "none"}
        \cup {f \in {"event_timestamp"} : r[f] \notin {"iso", "spark_only"}}
        \cup {f \in {"amount"} : r[f] \in {"blank", "negative", "python_only", "-huge", "junk"}}

\* Wrong: the test for a null timestamp is dropped.
WrongSparkTime(r) ==
    {f \in IdFields : r[f] \in {"none", "empty"}}
        \cup {f \in {"event_timestamp"} : r[f] \in {"empty", "blank", "python_only", "junk"}}
        \cup {f \in {"amount"} : r[f] \in {"blank", "negative", "python_only", "-huge", "junk"}}

\* NaN casts to a double that is not less than zero, a huge integer to infinity.
SparkFlags(r) ==
    {f \in IdFields : r[f] \in {"none", "empty"}}
        \cup {f \in {"event_timestamp"} : r[f] \notin {"iso", "spark_only"}}
        \cup {f \in {"amount"} : r[f] \in {"blank", "negative", "python_only", "-huge", "junk"}}

\* Wrong: the chain of conditions ends in otherwise("ok"), which is not null.
WrongReason(data) ==
    LET flagged == UNION {SparkFlags(r) : r \in data}
    IN  IF data # {} /\ flagged = {} THEN "ok" ELSE FirstOf(flagged)

rejection_reason(data) ==
    IF data = {} THEN "malformed_json" ELSE FirstOf(UNION {SparkFlags(r) : r \in data})

-----------------------------------------------------------------------------
(* Python                                                                  *)

\* Wrong: a null amount is handed to float.
WrongPythonFlags(r) ==
    {f \in IdFields : r[f] # "text"}
        \cup {f \in {"event_timestamp"} : r[f] \notin {"iso", "python_only"}}
        \cup {f \in {"amount"} : r[f] \in {"none", "negative", "nan", "spark_only", "junk"}}

\* A comparison with NaN is false, so that float("nan") >= 0 fails.
PythonFlags(r) ==
    {f \in IdFields : r[f] # "text"}
        \cup {f \in {"event_timestamp"} : r[f] \notin {"iso", "python_only"}}
        \cup {f \in {"amount"} : r[f] \in {"negative", "nan", "spark_only", "junk"}}

\* The amount comes last; float() of a huge integer raises an OverflowError,
\* which _is_valid_amount does not catch.
validate_record(r) ==
    IF PythonFlags(r) = {} /\ r.amount \in {"huge", "-huge"}
    THEN "raises"
    ELSE FirstOf(PythonFlags(r))

\* An empty dict counts as malformed (if not record).
validate_json_string(p) ==
    IF p.text # "object" THEN "malformed_json" ELSE validate_record(p.record)

-----------------------------------------------------------------------------
(* The producer's payloads                                                 *)

Good == [f \in Fields |-> CASE f \in IdFields -> "text"
                            [] f = "event_timestamp" -> "iso"
                            [] f = "amount" -> "nonneg"]

generate_event == [text |-> "object", record |-> Good]
missing_event_id == [generate_event EXCEPT !.record.event_id = "none"]
null_event_timestamp == [generate_event EXCEPT !.record.event_timestamp = "none"]
invalid_amount == [generate_event EXCEPT !.record.amount = "junk"]
malformed_json == [text |-> "broken", record |-> [NoFields EXCEPT !["event_id"] = "text"]]

BAD_EVENT_GENERATORS ==
    {missing_event_id, null_event_timestamp, invalid_amount, malformed_json}

-----------------------------------------------------------------------------

VARIABLES payload, spark, python

vars == <<payload, spark, python>>

Unknown == "?"

TypeOK ==
    /\ payload \in Payloads
    /\ {spark, python} \subseteq Reasons \cup {Unknown}

Init == payload \in Payloads /\ spark = Unknown /\ python = Unknown

ClassifyBatch ==
    /\ spark = Unknown
    /\ \E data \in FromJson(payload) : spark' = rejection_reason(data)
    /\ UNCHANGED <<payload, python>>

Validate ==
    /\ python = Unknown
    /\ python' = validate_json_string(payload)
    /\ UNCHANGED <<payload, spark>>

Next == ClassifyBatch \/ Validate

Spec == Init /\ [][Next]_vars

-----------------------------------------------------------------------------
(* Properties                                                              *)

\* A value that one side takes and the other does not.
Disputed(r) ==
    \/ \E f \in IdFields : r[f] = "blank"
    \/ r.event_timestamp \in {"spark_only", "python_only"}
    \/ r.amount \in {"blank", "nan", "spark_only", "python_only", "huge", "-huge"}

BothKnown == Unknown \notin {spark, python}

\* What the tests show of validate_record holds of the columns the job runs:
\* for an object without a disputed value both give the same verdict with the
\* same reason. (Of {} only the verdict is the same.)
RulesAgree ==
    BothKnown =>
        /\ payload.text = "object" /\ ~Disputed(payload.record) => spark = python
        /\ payload.text \in {"whitespace", "{}", "other"} => "valid" \notin {spark, python}

\* The only ways an object gets into the raw table that the tested rules would
\* keep out: an id of blanks, a NaN, a text only Spark reads, and an integer on
\* which the tested rules raise.
SparkLaxOnlyHere ==
    BothKnown /\ payload.text = "object" /\ spark = "valid" /\ python # "valid" =>
        \/ \E f \in IdFields : payload.record[f] = "blank"
        \/ payload.record.event_timestamp = "spark_only"
        \/ payload.record.amount \in {"nan", "spark_only", "huge"}

\* Both sides take what generate_event makes and reject each of the bad events,
\* for the same reason, except that the job never gives malformed_json for the
\* truncated one: its struct is not null.
ProducerJudged ==
    BothKnown =>
        /\ payload = generate_event => spark = "valid" /\ python = "valid"
        /\ payload \in BAD_EVENT_GENERATORS =>
              /\ spark # "valid" /\ python # "valid"
              /\ spark = python <=> payload # malformed_json
=============================================================================
