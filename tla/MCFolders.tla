----------------------------- MODULE MCFolders ------------------------------
(* The folders of a card for TLC: a folder with a folder, a file and a link in *)
(* it, and another one, which the link leads to; or an empty card.             *)
EXTENDS Folders, TLC

CONSTANTS pics, PICS, deep, one  \* names; PICS is another spelling of pics

MCSpelt == {pics, PICS, deep, one}

MCFold == (PICS :> pics) @@ [n \in {pics, deep, one} |-> n]

Entry(kind, d, n) == [kind |-> kind, in |-> d, name |-> n, to |-> Gone, blank |-> FALSE]

MCTrees ==
    {<<>>,
     <<Entry("folder", Root, pics), Entry("folder", 1, deep), Entry("file", 2, one),
       Entry("folder", Root, one), Entry("file", 4, pics),
       [Entry("link", 1, one) EXCEPT !.to = 4]>>}

Do(kind, path, n) == [kind |-> kind, path |-> path, name |-> n, toPath |-> <<>>, toName |-> n]

Mv(path, n, toPath, toName) ==
    [kind |-> "rename", path |-> path, name |-> n, toPath |-> toPath, toName |-> toName]

MCOrders ==
    {Do("mkdir", <<>>, pics), Do("put", <<pics, deep>>, PICS), Do("put", <<one>>, pics),
     Do("delete", <<>>, pics), Do("delete", <<one>>, PICS),
     Mv(<<>>, pics, <<>>, PICS), Mv(<<one>>, pics, <<one>>, PICS),
     Mv(<<pics>>, deep, <<>>, deep), Mv(<<>>, pics, <<pics, deep>>, pics),
     Mv(<<one>>, pics, <<pics, deep>>, one)}
=============================================================================
