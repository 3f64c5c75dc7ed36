----------------------------- MODULE MCConsole ------------------------------
(* Model values for Console: the semaphores of the two buffers, and the    *)
(* boot message in the output buffer, of one character or of none.         *)
EXTENDS Console
CONSTANTS c1, c2, u1

AllSems == {"out", "in"} \X {"item", "space", "head", "tail"}
OutItem == <<"out", "item">>
Message == <<c2>>
Nothing == <<>>
Values ==
  [s \in AllSems |->
     CASE s[2] \in {"head", "tail"} -> 1
       [] s = <<"out", "item">> -> Len(BootText)
       [] s = <<"in", "item">> -> 0
       [] s = <<"out", "space">> -> Cap - Len(BootText)
       [] s = <<"in", "space">> -> Cap]
=============================================================================
