----------------------------- MODULE MCLibrary -----------------------------
(***************************************************************************)
(* The parts of the system that share no state with others, so that one    *)
(* run checks them side by side: part says which of them the behaviour is  *)
(* about, and the others stay in their initial state.  The epoll is that   *)
(* of one task, with three events and waits for two of them at a time.     *)
(***************************************************************************)
EXTENDS EhMem, EhMemPool, EhRingbuf, EhHashtbl, EhRbtree, EhList, EhContext, EhLife,
        EhFormat, EhEpoll

VARIABLE part

vars == <<part, epollVars, memVars, poolVars, ringVars, hashVars, treeVars, listVars, ctxVars, lifeVars, fmtVars>>

MCMemStatic == [start |-> 3, size |-> 19]
MCMemExtra == {[start |-> 22, size |-> 12]}
MCHashKeys ==
  {[hash |-> h, name |-> "a"] : h \in {0, 4, 6, 13}} \cup {[hash |-> 0, name |-> "b"]}
MCTreeNodes == 1 .. 7
MCTreeKey == <<1, 2, 3, 4, 4, 5, 6>>

MCLifeLevel ==
  "main" :> 101 @@ "platform" :> 102 @@ "comp" :> 120 @@ "user" :> 700 @@ "user2" :> 700
MCLifeOpens ==
  "main" :> << >> @@ "platform" :> <<"epoll_fd", "timeout_fd", "wait_break_fd", "mutex">>
  @@ "comp" :> <<"1s", "500ms", "100ms">> @@ "user" :> <<"file">> @@ "user2" :> << >>
MCLifeKeeps == [m \in DOMAIN MCLifeLevel |-> IF m = "platform" THEN {"wait_break_fd"} ELSE {}]
MCLifeLink == <<"main", "platform", "comp", "user", "user2">>

\* Directives: integers, floating-point numbers (num over den), strings and arrays.  The
\* numbers are those at a sign, at a width, at a tie, at a carry and at a power of ten.
MCDirective ==
  [conv |-> "d", flags |-> {}, width |-> -1, star |-> FALSE, prec |-> -1, pstar |-> FALSE,
   qual |-> "none", num |-> 0, den |-> 1, text |-> << >>, bytes |-> << >>]
MCIntegers ==
  {[MCDirective EXCEPT !.conv = c, !.flags = f, !.width = w, !.prec = p, !.qual = q, !.num = n] :
     c \in {"d", "u", "x", "o", "b", "p"}, f \in SUBSET {"left", "zero", "special"},
     w \in {-1, 7}, p \in {-1, 4}, q \in {"hh", "none"}, n \in {0, -3, 200}}
MCFractions ==
  {<<0, 1>>, <<19, 20>>, <<199, 200>>, <<3, 2>>, <<5, 2>>, <<-1, 8>>, <<100, 1>>, <<1001, 1>>, <<-19, 2>>,
   <<1, 0>>, <<-1, 0>>, <<0, 0>>, <<1, 100>>}
MCFloats ==
  {[MCDirective EXCEPT !.conv = c, !.flags = f, !.width = w, !.prec = p, !.num = n[1], !.den = n[2]] :
     c \in {"f", "e", "g"}, f \in {{}, {"zero", "plus"}, {"left", "large", "special"}},
     w \in {-1, 10}, p \in {-1, 0, 1}, n \in MCFractions}
MCStrings ==
  {[MCDirective EXCEPT !.conv = "s", !.flags = f, !.width = w, !.star = w < -1, !.prec = p, !.pstar = p < -1,
                       !.text = <<"a", "NL", "b">>] :
     f \in {{}, {"left"}}, w \in {-4, -1, 0, 5}, p \in {-2, -1, 0, 2, 4}}
MCArrays ==
  {[MCDirective EXCEPT !.conv = "q", !.flags = f, !.width = w, !.prec = p, !.qual = q,
                       !.bytes = <<1, 171, 0, 255, 16>>] :
     f \in {{}, {"left", "large"}}, w \in {-1, 14}, p \in {-1, 0, 1, 3, 5}, q \in {"hh", "h", "none"}}
MCFmtDirectives ==
  MCIntegers \cup MCFloats \cup MCStrings \cup MCArrays
  \cup {[MCDirective EXCEPT !.conv = "c", !.width = w, !.text = <<"a">>] : w \in {-1, 3}}
  \cup {[MCDirective EXCEPT !.conv = "%"], [MCDirective EXCEPT !.conv = "?", !.text = <<"k">>],
        [MCDirective EXCEPT !.conv = "f", !.qual = "ll"]}
MCFmtShort ==
  {[MCDirective EXCEPT !.conv = "s", !.text = t] : t \in {<<"a", "b">>, <<"NL">>, <<"a", "NL", "b", "NL", "c">>}}
  \cup {[MCDirective EXCEPT !.width = 4, !.num = 5]}
MCFmtStreams ==
  {[kind |-> "function", size |-> n] : n \in {1, 4}} \cup {[kind |-> "plain", size |-> 1]}
  \cup {[kind |-> "memory", size |-> n] : n \in {1, 6}}
MCFmtBits == "hh" :> 4 @@ "h" :> 6 @@ "none" :> 8 @@ "l" :> 8 @@ "ll" :> 10 @@ "z" :> 8
MCFmtBytes == "hh" :> 1 @@ "h" :> 2 @@ "none" :> 4 @@ "l" :> 4 @@ "ll" :> 8 @@ "z" :> 4

Init ==
  /\ part \in {"heap", "pool", "ring", "hash", "tree", "dlist", "llist", "context", "life", "format", "epoll"}
  /\ MemStart /\ PoolStart /\ RingStart /\ HashStart /\ TreeStart /\ ListStart
  /\ CtxStart /\ (part # "context" => ctxPort = [name |-> "linux", words |-> 64])
  /\ LifeStart /\ (part # "life" => lifeLink = MCLifeLink)
  /\ EpollInit
  /\ FmtStart /\ (part # "format" => fmtStream.kind = "plain")

Next ==
  /\ UNCHANGED part
  /\ \/ part = "heap" /\ MemNext
        /\ UNCHANGED <<epollVars, poolVars, ringVars, hashVars, treeVars, dVars, lVars, ctxVars, lifeVars, fmtVars>>
     \/ part = "pool" /\ PoolNextStep
        /\ UNCHANGED <<epollVars, memVars, ringVars, hashVars, treeVars, dVars, lVars, ctxVars, lifeVars, fmtVars>>
     \/ part = "ring" /\ RingNext
        /\ UNCHANGED <<epollVars, memVars, poolVars, hashVars, treeVars, dVars, lVars, ctxVars, lifeVars, fmtVars>>
     \/ part = "hash" /\ HashCarefulNext
        /\ UNCHANGED <<epollVars, memVars, poolVars, ringVars, treeVars, dVars, lVars, ctxVars, lifeVars, fmtVars>>
     \/ part = "tree" /\ TreeStepNext
        /\ UNCHANGED <<epollVars, memVars, poolVars, ringVars, hashVars, dVars, lVars, ctxVars, lifeVars, fmtVars>>
     \/ part = "dlist" /\ DNextStep
        /\ UNCHANGED <<epollVars, memVars, poolVars, ringVars, hashVars, treeVars, lVars, ctxVars, lifeVars, fmtVars>>
     \/ part = "llist" /\ LNextStep
        /\ UNCHANGED <<epollVars, memVars, poolVars, ringVars, hashVars, treeVars, dVars, ctxVars, lifeVars, fmtVars>>
     \/ part = "context" /\ CtxNext
        /\ UNCHANGED <<epollVars, memVars, poolVars, ringVars, hashVars, treeVars, dVars, lVars, lifeVars, fmtVars>>
     \/ part = "life" /\ LifeNext
        /\ UNCHANGED <<epollVars, memVars, poolVars, ringVars, hashVars, treeVars, dVars, lVars, ctxVars, fmtVars>>
     \/ part = "format" /\ FmtNext
        /\ UNCHANGED <<epollVars, memVars, poolVars, ringVars, hashVars, treeVars, dVars, lVars, ctxVars, lifeVars>>
     \/ part = "epoll" /\ EpollNext
        /\ UNCHANGED <<memVars, poolVars, ringVars, hashVars, treeVars, dVars, lVars, ctxVars, lifeVars, fmtVars>>

\* The fairness of EpollSpec.
Spec ==
  /\ Init /\ [][Next]_vars
  /\ WF_epollVars(part = "epoll" /\ EpollTimer)
  /\ WF_epollVars(part = "epoll" /\ EpollTask)

=============================================================================
