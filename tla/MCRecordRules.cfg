\* Every payload of the value classes, judged once by each side.
SPECIFICATION Spec
INVARIANTS
    TypeOK
    RulesAgree
    SparkLaxOnlyHere
    ProducerJudged
CHECK_DEADLOCK FALSE
