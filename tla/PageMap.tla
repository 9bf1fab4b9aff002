------------------------------- MODULE PageMap -------------------------------
(***************************************************************************)
(* What a page store promises (nusadb-btree/src/store.rs, the PageStore    *)
(* trait): a map from page ids to contents in which every change is the    *)
(* one a caller asked for, made once, before the call returns.             *)
(***************************************************************************)
EXTENDS Naturals

CONSTANTS Page, Thread, Value, NoPage, Zero

VARIABLES
    content,    \* what each page holds, NoPage for an id that is no one's
    pending,    \* the change each thread is waiting for: none, or one record
    freed       \* pages freed so far

vars == <<content, pending, freed>>

Change(p, v, new) == {[page |-> p, val |-> v, new |-> new]}

Init == /\ content = [p \in Page |-> NoPage]
        /\ pending = [th \in Thread |-> {}]
        /\ freed = 0

BeginWrite(th, p, v) ==
    /\ pending[th] = {}
    /\ pending' = [pending EXCEPT ![th] = Change(p, v, FALSE)]
    /\ content[p] # NoPage
    /\ UNCHANGED <<content, freed>>

BeginAllocate(th, p) ==
    /\ pending[th] = {}
    /\ pending' = [pending EXCEPT ![th] = Change(p, Zero, TRUE)]
    /\ content[p] = NoPage
    /\ UNCHANGED <<content, freed>>

\* The change takes place, and the call that asked for it returns.
Take(th) ==
    \E c \in pending[th] :
        /\ pending' = [pending EXCEPT ![th] = {}]
        /\ c.new <=> content[c.page] = NoPage
        /\ content' = [content EXCEPT ![c.page] = c.val]
        /\ UNCHANGED freed

Deallocate(p) ==
    /\ freed' = freed + 1
    /\ content[p] # NoPage
    /\ content' = [content EXCEPT ![p] = NoPage]
    /\ UNCHANGED pending

Next == \/ \E th \in Thread : Take(th) \/ \E p \in Page : \/ BeginAllocate(th, p)
                                                          \/ \E v \in Value : BeginWrite(th, p, v)
        \/ \E p \in Page : Deallocate(p)

Spec == Init /\ [][Next]_vars
=============================================================================
