SPECIFICATION Spec
CONSTANTS
    Domain = 1
    Answers <- MCAnswers
    NoAnswer = NoAnswer
    Certs <- MCCerts
INVARIANTS
    TypeOK
    OneConnectionPerPlace
    PreferredStays
    HostMeta2IsAlone
    DnsAloneIsNotTrusted
\* the list is made once
CHECK_DEADLOCK FALSE
