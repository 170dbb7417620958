\* Two changes of one posted key each (asr_needs_punc goes with the model type),
\* one crash, two runs. Changes and runs are bounded, so the system stops.
CONSTANTS
    Runs = {r1, r2}
    MaxChanges = 2
    MaxKeys = 1
    Changed = {"llm_base_url", "llm_api_key", "asr_model_type", "asr_needs_punc"}
    MaxCrashes = 1
    None = None
SPECIFICATION FairSpec
INVARIANTS ShownIsUsed NothingStaleIsUsed
PROPERTIES EverythingEnds
CHECK_DEADLOCK FALSE
