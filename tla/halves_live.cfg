CONSTANTS
    w1 = w1
    w2 = w2
    fin = fin
    rst = rst
    rd = rd
    ex = ex
    end = end
    stp = stp
    bad = bad
    Sends = {w1, fin, rst}
    Recvs = {ex, stp, bad}
    Do <- DoOps
    Size <- SizeOps
    Window = 1
    Width = 4
    Build = "release"
SPECIFICATION FairSpec
CHECK_DEADLOCK FALSE
PROPERTIES DisconnectReleases StopFreesSender EndFreesReader
