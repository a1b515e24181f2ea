CONSTANT
    Messages <- MCMessages
SPECIFICATION Spec
INVARIANTS
    FieldsInside
    SentIsReported
    SameReport
    GeoInside
    FixlessIsTaken
    CountedIsReported
