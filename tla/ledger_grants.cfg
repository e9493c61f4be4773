\* An approved packet and an ordinary one, two grants, two calls that race for them, and a
\* context that becomes private.
CONSTANTS
    local = local
    flash = flash
    consultant = consultant
    claude = claude
    synth = synth
    page = page
    draft = draft
    sample = sample
    r1 = r1
    r2 = r2
    None = None
    g1 = g1
    g2 = g2
    yes = yes
    Requests = {r1, r2}
    Packets = {consultant, claude}
    Destinations = {consultant, claude}
    DestOf <- MCDestOf
    FeeOf <- MCFeeOf
    Profile <- MCProfile
    Sources = {page, draft}
    Class <- MCClass
    FirstSources = {page}
    Grants = {g1, g2}
    Proposals = {yes}
    MaxRequests = 2
    MaxFee = 5
    ReplyFees = {1}
    Failures = {"http_4xx"}
    FirstMode = "cloud_help"
    FirstDests = {consultant, claude}
    Revisions = {}
    MaxRevision = 1
    MaxUses = 2
SPECIFICATION Spec
INVARIANTS
    GrantCoversItsRows
    PrivateDisclosureGranted
SYMMETRY Sym
CHECK_DEADLOCK FALSE
