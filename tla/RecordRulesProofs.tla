------------------------- MODULE RecordRulesProofs -------------------------
(***************************************************************************)
(* Proofs about RecordRules: which payloads are the bad events of the job. *)
(* The two sets of rules are compared flag by flag, not by enumerating the *)
(* payloads.                                                               *)
(***************************************************************************)
EXTENDS RecordRules, TLAPS

\* The reason given is one of the fields that are flagged, if any is.
LEMMA ReasonIsFlagged ==
  ASSUME NEW flagged \in SUBSET Fields
  PROVE  /\ flagged = {} => FirstOf(flagged) = "valid"
         /\ flagged # {} => FirstOf(flagged) \in flagged
<1>0. /\ Order[1] = "event_id" /\ Order[2] = "user_id"
      /\ Order[3] = "account_id" /\ Order[4] = "event_type"
      /\ Order[5] = "event_timestamp" /\ Order[6] = "amount"
  BY DEF Order
<1>1. CASE flagged = {}
  BY <1>1 DEF FirstOf
<1>2. CASE flagged # {}
  <2> DEFINE Foremost(i) == /\ Order[i] \in flagged
                         /\ \A j \in 1..(i - 1) : Order[j] \notin flagged
  <2>1. \E i \in 1..6 : Order[i] \in flagged
    <3>1. PICK f \in flagged : TRUE
      BY <1>2
    <3>2. \/ f = "event_id" \/ f = "user_id" \/ f = "account_id"
          \/ f = "event_type" \/ f = "event_timestamp" \/ f = "amount"
      BY DEF Fields, IdFields
    <3> QED BY <1>0, <3>1, <3>2
  <2>2. \E i \in 1..6 : Foremost(i)
    <3>1. CASE Order[1] \in flagged
      BY <3>1
    <3>2. CASE Order[1] \notin flagged /\ Order[2] \in flagged
      BY <3>2
    <3>3. CASE (\A j \in 1..2 : Order[j] \notin flagged) /\ Order[3] \in flagged
      BY <3>3
    <3>4. CASE (\A j \in 1..3 : Order[j] \notin flagged) /\ Order[4] \in flagged
      BY <3>4
    <3>5. CASE (\A j \in 1..4 : Order[j] \notin flagged) /\ Order[5] \in flagged
      BY <3>5
    <3>6. CASE (\A j \in 1..5 : Order[j] \notin flagged) /\ Order[6] \in flagged
      BY <3>6
    <3> QED BY <2>1, <3>1, <3>2, <3>3, <3>4, <3>5, <3>6
  <2>3. FirstOf(flagged) = Order[CHOOSE i \in 1..6 : Foremost(i)]
    BY <1>2 DEF FirstOf
  <2> QED BY <1>2, <2>2, <2>3
<1> QED BY <1>1, <1>2

LEMMA FieldsAreReasons ==
  /\ Fields \subseteq Reasons /\ {"valid", "raises", "malformed_json"} \subseteq Reasons
  /\ Reasons \subseteq Fields \cup {"valid", "raises", "malformed_json"}
  /\ {"valid", "raises", "malformed_json", Unknown} \cap Fields = {}
  /\ Unknown \notin Reasons
<1>0. /\ Order[1] = "event_id" /\ Order[2] = "user_id"
      /\ Order[3] = "account_id" /\ Order[4] = "event_type"
      /\ Order[5] = "event_timestamp" /\ Order[6] = "amount"
  BY DEF Order
<1>1. {Order[i] : i \in 1..6} = Fields
  BY <1>0 DEF Fields, IdFields
<1> QED BY <1>1 DEF Reasons, Fields, IdFields, Unknown

\* The verdict on a record, by the fields that are flagged in it.
LEMMA Verdicts ==
  ASSUME NEW r
  PROVE  /\ SparkFlags(r) \subseteq Fields
         /\ PythonFlags(r) \subseteq Fields
         /\ rejection_reason({r}) = FirstOf(SparkFlags(r))
         /\ rejection_reason({r}) = "valid" <=> SparkFlags(r) = {}
         /\ validate_record(r) \in Fields \cup {"valid", "raises"}
         /\ r.amount \notin {"huge", "-huge"} =>
               /\ validate_record(r) = FirstOf(PythonFlags(r))
               /\ validate_record(r) = "valid" <=> PythonFlags(r) = {}
         /\ validate_record(r) # "valid" =>
               PythonFlags(r) # {} \/ r.amount \in {"huge", "-huge"}
<1>1. SparkFlags(r) \subseteq Fields /\ PythonFlags(r) \subseteq Fields
  BY DEF SparkFlags, PythonFlags, Fields
<1>2. UNION {SparkFlags(s) : s \in {r}} = SparkFlags(r)
  OBVIOUS
<1>3. rejection_reason({r}) = FirstOf(SparkFlags(r))
  BY <1>2 DEF rejection_reason
<1>4. "valid" \notin Fields
  BY FieldsAreReasons
<1>5. /\ PythonFlags(r) = {} => FirstOf(PythonFlags(r)) = "valid"
      /\ PythonFlags(r) # {} => FirstOf(PythonFlags(r)) \in Fields
  BY <1>1, ReasonIsFlagged
<1>6. validate_record(r) \in Fields \cup {"valid", "raises"}
  BY <1>5 DEF validate_record
<1>7. r.amount \notin {"huge", "-huge"} => validate_record(r) = FirstOf(PythonFlags(r))
  BY DEF validate_record
<1>8. validate_record(r) # "valid" => PythonFlags(r) # {} \/ r.amount \in {"huge", "-huge"}
  BY <1>5 DEF validate_record
<1>9. rejection_reason({r}) = "valid" <=> SparkFlags(r) = {}
  BY <1>1, <1>3, <1>4, ReasonIsFlagged
<1> QED BY <1>1, <1>3, <1>4, <1>5, <1>6, <1>7, <1>8, <1>9

LEMMA FlagsAgree ==
  ASSUME NEW r \in Records, ~Disputed(r)
  PROVE  SparkFlags(r) = PythonFlags(r)
<1>1. \A f \in IdFields : r[f] \in Ids /\ r[f] # "blank"
  BY DEF Records, IdFields, Disputed
<1>2. /\ r.event_timestamp \in Times \ {"spark_only", "python_only"}
      /\ r.amount \in Amounts \ {"blank", "nan", "spark_only", "python_only", "huge", "-huge"}
  BY DEF Records, Disputed
<1>3. \A f \in IdFields : r[f] \in {"none", "empty"} <=> r[f] # "text"
  BY <1>1 DEF Ids
<1>4. r.event_timestamp \notin {"iso", "spark_only"} <=> r.event_timestamp \notin {"iso", "python_only"}
  BY <1>2
<1>5. r.amount \in {"blank", "negative", "python_only", "-huge", "junk"}
         <=> r.amount \in {"negative", "nan", "spark_only", "junk"}
  BY <1>2
<1>6. ASSUME NEW f PROVE f \in SparkFlags(r) <=> f \in PythonFlags(r)
  BY <1>3, <1>4, <1>5 DEF SparkFlags, PythonFlags
<1> QED BY <1>6

\* What is already known is what the two sides say of the payload.
Judged ==
    /\ spark = Unknown
          \/ \E data \in FromJson(payload) : spark = rejection_reason(data)
    /\ python \in {Unknown, validate_json_string(payload)}

\* A struct that from_json returns is null or one record.
LEMMA Structs ==
  ASSUME NEW p \in Payloads, NEW data \in FromJson(p)
  PROVE  /\ data = {} \/ \E r : data = {r}
         /\ p.text = "object" => data = {p.record}
         /\ p.text \in {"whitespace", "{}", "other"} => data = {} \/ data = {NoFields}
<1>1. \/ p.text \in {"object", "lenient", "broken"} /\ p.record \in Records
      \/ p.text \in {"whitespace", "other", "{}"} /\ p.record = NoFields
  BY DEF Payloads
<1>2. CASE p.text = "whitespace"
  BY <1>2 DEF FromJson
<1>3. CASE p.text \in {"object", "lenient"}
  BY <1>3 DEF FromJson
<1>4. CASE p.text = "broken"
  BY <1>4 DEF FromJson
<1>5. CASE p.text = "{}"
  BY <1>5 DEF FromJson
<1>6. CASE p.text = "other"
  BY <1>6 DEF FromJson
<1> QED BY <1>1, <1>2, <1>3, <1>4, <1>5, <1>6

LEMMA SparkReason ==
  ASSUME NEW p \in Payloads, NEW data \in FromJson(p)
  PROVE  rejection_reason(data) \in Reasons
<1>1. CASE data = {}
  BY <1>1, FieldsAreReasons DEF rejection_reason
<1>2. ASSUME NEW r, data = {r} PROVE rejection_reason(data) \in Reasons
  <2>1. SparkFlags(r) \in SUBSET Fields /\ rejection_reason(data) = FirstOf(SparkFlags(r))
    BY <1>2, Verdicts
  <2>2. FirstOf(SparkFlags(r)) \in Fields \cup {"valid"}
    BY <2>1, ReasonIsFlagged
  <2> QED BY <2>1, <2>2, FieldsAreReasons
<1> QED BY <1>1, <1>2, Structs

LEMMA PythonReason ==
  ASSUME NEW p \in Payloads
  PROVE  validate_json_string(p) \in Reasons
<1>1. validate_record(p.record) \in Fields \cup {"valid", "raises"}
  BY Verdicts
<1> QED BY <1>1, FieldsAreReasons DEF validate_json_string

LEMMA JudgedInit == Init => TypeOK /\ Judged
  BY DEF Init, TypeOK, Judged

LEMMA JudgedStep == TypeOK /\ Judged /\ [Next]_vars => TypeOK' /\ Judged'
<1> SUFFICES ASSUME TypeOK, Judged, [Next]_vars
             PROVE  TypeOK' /\ Judged'
  OBVIOUS
<1>1. CASE ClassifyBatch
  BY <1>1, SparkReason DEF ClassifyBatch, TypeOK, Judged
<1>2. CASE Validate
  BY <1>2, PythonReason DEF Validate, TypeOK, Judged
<1>3. CASE UNCHANGED vars
  BY <1>3 DEF vars, TypeOK, Judged
<1> QED BY <1>1, <1>2, <1>3 DEF Next

LEMMA JudgedHolds == Spec => [](TypeOK /\ Judged)
  BY JudgedInit, JudgedStep, PTL DEF Spec

\* Each side gives a reason from the list that names the fields, or none.
THEOREM TypeCorrect == Spec => []TypeOK
  BY JudgedHolds, PTL

\* Once both sides have judged, their verdicts are those of the two functions.
LEMMA BothJudged ==
  ASSUME TypeOK, Judged, BothKnown
  PROVE  /\ payload \in Payloads
         /\ \E data \in FromJson(payload) : spark = rejection_reason(data)
         /\ python = validate_json_string(payload)
         /\ payload.text = "object" =>
               /\ payload.record \in Records
               /\ spark = FirstOf(SparkFlags(payload.record))
               /\ python = validate_record(payload.record)
               /\ spark = "valid" <=> SparkFlags(payload.record) = {}
<1>1. /\ payload \in Payloads
      /\ python = validate_json_string(payload)
  BY DEF TypeOK, Judged, BothKnown
<1>2. PICK data \in FromJson(payload) : spark = rejection_reason(data)
  BY DEF Judged, BothKnown
<1>3. CASE payload.text = "object"
  <2>1. data = {payload.record}
    BY <1>1, <1>2, <1>3, Structs
  <2>2. payload.record \in Records
    BY <1>1, <1>3 DEF Payloads
  <2>3. python = validate_record(payload.record)
    BY <1>1, <1>3 DEF validate_json_string
  <2> QED BY <1>1, <1>2, <1>3, <2>1, <2>2, <2>3, Verdicts
<1> QED BY <1>1, <1>2, <1>3

\* For an object without a disputed value the job's columns and the tested
\* functions give the same verdict for the same reason; neither takes a text
\* that is no event at all.
THEOREM RulesAgreeHolds == Spec => []RulesAgree
<1>1. TypeOK /\ Judged => RulesAgree
  <2> SUFFICES ASSUME TypeOK, Judged, BothKnown
               PROVE  /\ payload.text = "object" /\ ~Disputed(payload.record)
                            => spark = python
                      /\ payload.text \in {"whitespace", "{}", "other"}
                            => "valid" \notin {spark, python}
    BY DEF RulesAgree
  <2>1. ASSUME payload.text = "object", ~Disputed(payload.record) PROVE spark = python
    <3>1. payload.record.amount \notin {"huge", "-huge"}
      BY <2>1 DEF Disputed
    <3> QED BY <2>1, <3>1, BothJudged, FlagsAgree, Verdicts
  <2>2. ASSUME payload.text \in {"whitespace", "{}", "other"}
        PROVE  "valid" \notin {spark, python}
    <3>1. PICK data \in FromJson(payload) : spark = rejection_reason(data)
      BY BothJudged
    <3>2. data = {} \/ data = {NoFields}
      BY <2>2, BothJudged, Structs
    <3>3. "event_id" \in SparkFlags(NoFields)
      BY DEF SparkFlags, NoFields, Fields, IdFields
    <3>4. spark # "valid"
      BY <3>1, <3>2, <3>3, Verdicts DEF rejection_reason
    <3>5. python = "malformed_json"
      BY <2>2, BothJudged DEF validate_json_string
    <3> QED BY <3>4, <3>5
  <2> QED BY <2>1, <2>2
<1> QED BY <1>1, JudgedHolds, PTL

\* What the job lets through and the tested functions would not is an id of
\* blanks, a NaN, or a text that only Spark reads.
THEOREM SparkLaxOnlyHereHolds == Spec => []SparkLaxOnlyHere
<1>1. TypeOK /\ Judged => SparkLaxOnlyHere
  <2> SUFFICES ASSUME TypeOK, Judged, BothKnown, payload.text = "object",
                      spark = "valid", python # "valid"
               PROVE  \/ \E f \in IdFields : payload.record[f] = "blank"
                      \/ payload.record.event_timestamp = "spark_only"
                      \/ payload.record.amount \in {"nan", "spark_only", "huge"}
    BY DEF SparkLaxOnlyHere
  <2> DEFINE r == payload.record
  <2>1. /\ r \in Records /\ SparkFlags(r) = {}
        /\ PythonFlags(r) # {} \/ r.amount \in {"huge", "-huge"}
    BY BothJudged, Verdicts
  <2>2. CASE r.amount \in {"huge", "-huge"}
    BY <2>1, <2>2 DEF SparkFlags
  <2> SUFFICES ASSUME NEW f \in PythonFlags(r), f \notin SparkFlags(r)
               PROVE  \/ \E g \in IdFields : r[g] = "blank"
                      \/ r.event_timestamp = "spark_only"
                      \/ r.amount \in {"nan", "spark_only", "huge"}
    BY <2>1, <2>2
  <2>3. CASE f \in IdFields
    <3>1. r[f] \in Ids
      BY <2>1, <2>3 DEF Records, IdFields
    <3>2. r[f] # "text" /\ r[f] \notin {"none", "empty"}
      BY <2>3 DEF PythonFlags, SparkFlags, IdFields
    <3> QED BY <2>3, <3>1, <3>2 DEF Ids
  <2>4. CASE f = "event_timestamp"
    BY <2>4 DEF PythonFlags, SparkFlags, IdFields
  <2>5. CASE f = "amount"
    BY <2>5 DEF PythonFlags, SparkFlags, IdFields
  <2> QED BY <2>3, <2>4, <2>5 DEF PythonFlags
<1> QED BY <1>1, JudgedHolds, PTL

\* What is wrong with each of the producer's payloads.
LEMMA ProducerFlags ==
  /\ \A p \in {generate_event} \cup (BAD_EVENT_GENERATORS \ {malformed_json}) :
        p.text = "object" /\ ~Disputed(p.record)
  /\ SparkFlags(generate_event.record) = {}
  /\ \A p \in BAD_EVENT_GENERATORS \ {malformed_json} :
        SparkFlags(p.record) # {}
  /\ malformed_json.text = "broken"
  /\ \A S \in SUBSET Fields :
        "event_timestamp" \in SparkFlags(
            [f \in Fields |-> IF f \in S THEN malformed_json.record[f] ELSE "none"])
<1> USE DEF Fields, IdFields
<1> DEFINE good == Good
<1>1. /\ good = [f \in Fields |-> good[f]]
      /\ \A f \in IdFields : good[f] = "text"
      /\ good.event_timestamp = "iso" /\ good.amount = "nonneg"
  BY DEF Good
<1> HIDE DEF good
<1>2. generate_event.text = "object" /\ generate_event.record = good
  BY DEF generate_event, good
<1>3. /\ missing_event_id.text = "object"
      /\ missing_event_id.record = [good EXCEPT !.event_id = "none"]
  BY DEF missing_event_id, generate_event, good
<1>4. /\ null_event_timestamp.text = "object"
      /\ null_event_timestamp.record = [good EXCEPT !.event_timestamp = "none"]
  BY DEF null_event_timestamp, generate_event, good
<1>5. /\ invalid_amount.text = "object"
      /\ invalid_amount.record = [good EXCEPT !.amount = "junk"]
  BY DEF invalid_amount, generate_event, good
<1>6. ~Disputed(good) /\ SparkFlags(good) = {}
  BY <1>1 DEF Disputed, SparkFlags
<1>7. LET r == [good EXCEPT !.event_id = "none"]
      IN  ~Disputed(r) /\ SparkFlags(r) # {}
  BY <1>1 DEF Disputed, SparkFlags
<1>8. LET r == [good EXCEPT !.event_timestamp = "none"]
      IN  ~Disputed(r) /\ SparkFlags(r) # {}
  BY <1>1 DEF Disputed, SparkFlags
<1>9. LET r == [good EXCEPT !.amount = "junk"]
      IN  ~Disputed(r) /\ SparkFlags(r) # {}
  BY <1>1 DEF Disputed, SparkFlags
<1>10. \A p \in BAD_EVENT_GENERATORS \ {malformed_json} :
          \/ p = missing_event_id \/ p = null_event_timestamp
          \/ p = invalid_amount
  BY DEF BAD_EVENT_GENERATORS
<1>11. malformed_json.text = "broken" /\ malformed_json.record["event_timestamp"] = "none"
  BY DEF malformed_json, NoFields
<1>12. ASSUME NEW S \in SUBSET Fields
       PROVE  "event_timestamp" \in SparkFlags(
                 [f \in Fields |-> IF f \in S THEN malformed_json.record[f] ELSE "none"])
  BY <1>11 DEF SparkFlags
<1>13. \A p \in BAD_EVENT_GENERATORS \ {malformed_json} :
          p.text = "object" /\ ~Disputed(p.record) /\ SparkFlags(p.record) # {}
  BY <1>3, <1>4, <1>5, <1>7, <1>8, <1>9, <1>10
<1> QED BY <1>2, <1>6, <1>11, <1>12, <1>13

\* Both sides take what generate_event makes and reject every bad event, for the
\* same reason but for the truncated one, so that the events of the producer are
\* good or bad to the job whichever fields its parser can save.
THEOREM ProducerJudgedHolds == Spec => []ProducerJudged
<1>1. TypeOK /\ Judged => ProducerJudged
  <2> SUFFICES ASSUME TypeOK, Judged, BothKnown
               PROVE  /\ payload = generate_event => spark = "valid" /\ python = "valid"
                      /\ payload \in BAD_EVENT_GENERATORS =>
                            /\ spark # "valid" /\ python # "valid"
                            /\ spark = python <=> payload # malformed_json
    BY DEF ProducerJudged
  <2>1. ASSUME payload \in {generate_event}
                  \cup (BAD_EVENT_GENERATORS \ {malformed_json})
        PROVE  /\ spark = python
               /\ spark = "valid" <=> SparkFlags(payload.record) = {}
    <3>1. payload.text = "object" /\ ~Disputed(payload.record)
      BY <2>1, ProducerFlags
    <3>2. payload.record.amount \notin {"huge", "-huge"}
      BY <3>1 DEF Disputed
    <3> QED BY <3>1, <3>2, BothJudged, FlagsAgree, Verdicts
  <2>2. CASE payload = generate_event
    <3>1. payload # malformed_json
      BY <2>2, ProducerFlags
    <3>2. payload \notin BAD_EVENT_GENERATORS
      BY <2>2, <3>1, ProducerFlags
    <3> QED BY <2>1, <2>2, <3>2, ProducerFlags
  <2>3. CASE payload \in BAD_EVENT_GENERATORS \ {malformed_json}
    BY <2>1, <2>3, ProducerFlags
  <2>4. CASE payload = malformed_json
    <3>1. python = "malformed_json" /\ payload.text = "broken"
      BY <2>4, BothJudged, ProducerFlags DEF validate_json_string
    <3>2. PICK data \in FromJson(payload) : spark = rejection_reason(data)
      BY BothJudged
    <3>3. PICK S \in SUBSET Fields :
             data = {[f \in Fields |-> IF f \in S THEN payload.record[f] ELSE "none"]}
      BY <3>1, <3>2 DEF FromJson
    <3> DEFINE r == [f \in Fields |-> IF f \in S THEN payload.record[f] ELSE "none"]
    <3>4. "event_timestamp" \in SparkFlags(r)
      BY <2>4, ProducerFlags
    <3> HIDE DEF r
    <3>5. spark \in Fields
      BY <3>2, <3>3, <3>4, Verdicts, ReasonIsFlagged DEF r
    <3> QED BY <2>2, <2>4, <3>1, <3>5, FieldsAreReasons, ProducerFlags
  <2> QED BY <2>2, <2>3, <2>4
<1> QED BY <1>1, JudgedHolds, PTL
=============================================================================
