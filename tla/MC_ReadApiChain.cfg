CONSTANTS
    MaxCheckpoints = 3
    MaxTxs = 2
    MaxEpochs = 2
    ProtocolVersions = {1, 2}
    Supported = {1}
    MaxResultLimit = 2
    DigestRequests <- MC_DigestRequests
    MaxCalls = 3
    None = None

SPECIFICATION Spec

INVARIANT TypeOK
INVARIANT ChainReadsAreConsistent

\* The indexer stops after its last checkpoint and epoch, and the client
\* after its last call.
CHECK_DEADLOCK FALSE
