SPECIFICATION FairSpec
CONSTANTS
    Files <- mcFiles
    Listen <- mcListen
    Hosts <- mcHosts
    Hostnames = {"a", "b"}
    Sizes = {"1K"}
    Number <- mcNumber
    Locators = {"/", "/x"}
    Fds = {1, 2, 3}
INVARIANTS TypeOK EndpointsDistinct ReadAsWritten ReadyToRun ListensWhereItCan
PROPERTY StartupEnds
CHECK_DEADLOCK FALSE
