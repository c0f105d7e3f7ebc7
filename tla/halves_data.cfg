CONSTANTS
    w1 = w1
    w2 = w2
    fin = fin
    rst = rst
    rd = rd
    ex = ex
    end = end
    stp = stp
    bad = bad
    Sends = {w1, w2, fin}
    Recvs = {rd, ex, end, bad}
    Do <- DoOps
    Size <- SizeOps
    Window = 2
    Width = 4
    Build = "debug"
SPECIFICATION Spec
CHECK_DEADLOCK FALSE
INVARIANTS WritesInOrder ReadsInOrder EndIsComplete
