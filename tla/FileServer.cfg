\* Overlapping writes before and after a reconnect and an append, two frames each.
CONSTANTS
    Rpc = {1, 2, 3}
    Req <- Overlapping
    NFrames = 2
    Stripe <- OneStripe
    Lossy = {1}
    Closing <- FirstHandle
SPECIFICATION FairSpec
INVARIANTS NotTorn AppendContiguous AbandonedIsOver
PROPERTIES WriteEnds
CHECK_DEADLOCK FALSE
