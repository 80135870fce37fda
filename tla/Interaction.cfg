CONSTANTS
    o1 = o1 o2 = o2
    Ops = {o1, o2}
    Mixes <- BesideSubscription
    NoOne = NoOne
    MaxAnswers = 2
    Keys <- SmallKeys
    Number <- SmallNumber
    kMaximumDescriptorListItems = 2
    Payloads <- SmallPayloads
    Lists <- SmallLists
    Failed = Failed
SPECIFICATION Spec
INVARIANTS CallbackFindsState LeaseCoversClient SuccessIsAnswered NothingAfterShutdown
           LoopIsNotBlocked PayloadSurvives
CHECK_DEADLOCK FALSE
