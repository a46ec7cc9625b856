SPECIFICATION Spec
INVARIANTS
    TypeOK
    ImportOnce
PROPERTIES
    UndisturbedEdits
    SuccessIsComplete
    TypedLinesSurvive
CONSTANTS
    comment = comment
    import1 = import1
    code1 = code1
    typed1 = typed1
    Preamble = {comment}
    Import = {import1, NewImport}
    Code = {code1}
    Open = Open
    Close = Close
    Blank = Blank
    Typed = {typed1}
    NewImport = NewImport
    NewCode = NewCode
    Glued = Glued
    Files <- MCFiles
    MaxKeys = 1
    MaxRequests = 2
