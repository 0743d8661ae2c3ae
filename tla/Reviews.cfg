SPECIFICATION Spec
CONSTANTS
    Emails = {e1}
    Organizations = {o1, o2}
    Owner = o1
    Runs = {p1, p2}
    Nobody = Nobody
    Reviews = {r1, r2}
    Accesses = {a1}
    Details = {v1}
    FirstJob = j1
    LateJob = j2
    ForeignJob = j3
    MaxFaults = 1
INVARIANTS
    ReviewerHasOneTenant
    ReviewHasItsJob
    TombstoneKeepsNoReview
    EffectsAreAudited
    ReviewStaysInTenant
    DetailIsWhole
PROPERTIES
    ReviewGoesWithItsDocument
    ErasedDocumentIsDeleted
