\* Two registrations for one address and one for another; one browser.
SPECIFICATION Spec
CONSTANTS
    s1 = s1
    s2 = s2
    s3 = s3
    anna = anna
    bert = bert
    Signups = {s1, s2, s3}
    Emails = {anna, bert}
    EmailOf <- Addresses
    TokenLife = 1
    MaxTime = 2
    NoOne = NoOne
    NoToken = NoToken
INVARIANTS
    OneAccountPerAddress
    OnlyLateAnswersMisidentify
PROPERTIES
    SignedOutForACause
