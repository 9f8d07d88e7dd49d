SPECIFICATION Spec
CONSTANTS
    MaxPath = 14
    RootLen = 3
    Index <- IndexHtml
    Devices <- SomeDevices
    RecvSize = 27
    Pieces = {1, 3}
    Trees <- SomeTrees
    Mistyped <- SomeUrls
INVARIANTS
    TypeOK
    RequestUnderstood
    Confined
    TypedIsServed
    LinksLead
