SPECIFICATION Spec
CONSTANTS
    r1 = r1
    r2 = r2
    github = github
    kakao = kakao
    mail = mail
    t1 = t1
    n1 = n1
    Req = {r1, r2}
    Identity = {github, kakao}
    Mail = {mail}
    NoMail = NoMail
    NoIdentity = NoIdentity
    MailOf <- MCMailOf
    Legacy <- MCLegacy
    Token = {t1}
    NoToken = NoToken
    Title = {n1}
    Parallel = 2
INVARIANTS
    TypeOK
    NoAutoLink
    TokenLinksOnce
PROPERTIES
    AnswersOwnerUnlessRaced
    OwnerKept
    MergeKeepsData
CHECK_DEADLOCK FALSE
