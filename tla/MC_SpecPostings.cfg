CONSTANTS
    w1 = w1
    w2 = w2
    t1 = t1
    t2 = t2
    t3 = t3
    NDocs = 2
    MaxHeads = 2
    Words <- MC_Words
    Titles <- MC_Titles
    TitleWords <- MC_TitleWords
    Slug <- MC_Slug
    Page <- MC_Page
SPECIFICATION Spec
INVARIANT TermsAreLists
