\* Two concurrent calls that may retry, without grants, and all that the host may do meanwhile.
CONSTANTS
    local = local
    flash = flash
    consultant = consultant
    claude = claude
    synth = synth
    page = page
    draft = draft
    sample = sample
    r1 = r1
    r2 = r2
    None = None
    g1 = g1
    g2 = g2
    yes = yes
    Requests = {r1, r2}
    Packets = {flash, synth}
    Destinations = {flash, synth}
    DestOf <- MCDestOf
    FeeOf <- MCFeeOf
    Profile <- MCProfile
    Sources = {page, sample}
    Class <- MCClass
    FirstSources = {page}
    Grants = {}
    Proposals = {}
    MaxRequests = 4
    MaxFee = 3
    ReplyFees = {0, 2}
    Failures = {"upstream_closed", "http_429", "http_4xx", "uncertain", "cancelled"}
    FirstMode = "cloud_help"
    FirstDests = {flash, synth}
    Revisions <- MCRevisions
    MaxRevision = 1
    MaxUses = 1
SPECIFICATION FairSpec
INVARIANTS
    UnresolvedIsLast
    ResendOnlyAfterConfirmedAbort
PROPERTIES
    ImplementsAllowance
    NoStaleDispatch
    EveryCallReturns
CHECK_DEADLOCK FALSE
