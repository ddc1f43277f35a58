SPECIFICATION FairSpec
CONSTANTS
    NotUsed = NotUsed
    NoValue = NoValue
    p1 = p1
    n1 = n1
    h1 = h1
    h2 = h2
    g1 = g1
    g2 = g2
    c1 = c1
    c2 = c2
    w1 = w1
    w2 = w2
    a1 = a1
PROPERTIES
    Resumes
    ComesBack
CHECK_DEADLOCK FALSE
