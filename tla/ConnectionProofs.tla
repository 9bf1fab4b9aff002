-------------------------- MODULE ConnectionProofs --------------------------
(***************************************************************************)
(* What a transaction's end settles on a connection besides the engine: its *)
(* parameters and its cursors, whatever statements it ran, in whatever      *)
(* order and number, and however it ended.  And what its savepoints keep:   *)
(* the engine's, the deferred queue's marks and the NOTIFY queue's follow   *)
(* one transaction, so a ROLLBACK TO any of them takes back the same writes *)
(* everywhere and leaves every key that is broken then with a check.        *)
(***************************************************************************)
EXTENDS Connection, FiniteSetTheorems, WellFoundedInduction, TLAPS

-----------------------------------------------------------------------------
(* The invariant                                                           *)

Setting == Value \cup {Unset}

\* The fields the records have.
Shape ==
    /\ conn.state \in {"Auto", "Active", "Failed"}
    /\ DOMAIN conn = {"state", "batch", "implicit", "pubsub"}
    /\ guc \in [live : Setting, backup : Setting \cup {None}, pending : Setting \cup {None}]
    /\ DOMAIN hist = {"base", "sess", "unseen", "lost", "checked", "forgot", "clean", "stmts",
                      "asides", "budget"}
    /\ hist.base \in Setting /\ hist.sess \in Setting \cup {None}
    /\ hist.unseen \in Setting \cup {None} /\ hist.lost \in Setting \cup {None}

\* The backup is the value from before the transaction, taken by its first SET; a
\* commit would leave what the last plain SET or RESET asked for, or the value a
\* RESET ALL did not see.
GucInv ==
    /\ guc.backup = None => guc.live = Standing(hist) /\ guc.pending = None
    /\ guc.backup # None => guc.backup = Standing(hist)
    /\ conn.state = "Auto" => guc.backup = None /\ hist.sess = None
    /\ hist.unseen # None => hist.sess # None
    /\ EndGucs(guc, TRUE).live = Beneath(hist)

\* A cursor is not open, or one of the open transaction, or kept by a commit.
Kept(c) == c.hold /\ ~c.pending /\ c.born = "committed"
CursorInv ==
    /\ cursors \in [Cursor -> [hold : BOOLEAN, pending : BOOLEAN,
                               born : {None, "open", "committed"}]]
    /\ \A n \in Cursor :
          \/ cursors[n].born = None
          \/ Kept(cursors[n])
          \/ conn.state # "Auto" /\ cursors[n].pending /\ cursors[n].born = "open"

SettleInv == Shape /\ GucInv /\ CursorInv

-----------------------------------------------------------------------------
(* Steps by what they touch                                                *)

\* The parameters and what is known of them.
SameGucs ==
    /\ guc' = guc
    /\ hist'.base = hist.base /\ hist'.lost = hist.lost
    /\ hist'.sess = hist.sess /\ hist'.unseen = hist.unseen
    /\ DOMAIN hist' = DOMAIN hist

\* The connection stays in its transaction, or enters one.
Onward ==
    /\ conn'.state \in {"Auto", "Active", "Failed"} /\ DOMAIN conn' = DOMAIN conn
    /\ conn'.state = "Auto" => conn.state = "Auto"

LEMMA EnteredIs ==
    ASSUME Shape
    PROVE  /\ DOMAIN Entered = DOMAIN conn
           /\ Entered.state \in {"Auto", "Active", "Failed"}
           /\ Entered.state = "Auto" => conn.state = "Auto"
           /\ conn.state # "Auto" => Entered.state = conn.state
BY DEF Shape, Entered

LEMMA AnsweredIs ==
    ASSUME NEW c, NEW ok, Answered(c, ok), DOMAIN c = {"state", "batch", "implicit", "pubsub"}
    PROVE  conn'.state = c.state /\ DOMAIN conn' = DOMAIN c
BY DEF Answered

LEMMA GucsStay ==
    ASSUME Shape, GucInv, SameGucs, Onward
    PROVE  Shape' /\ GucInv'
<1>1. Shape'
  BY DEF Shape, SameGucs, Onward
<1>2. EndGucs(guc, TRUE)' = EndGucs(guc, TRUE)
  BY DEF EndGucs, SameGucs
<1>3. GucInv'
  BY <1>2 DEF GucInv, SameGucs, Onward, Standing, Beneath
<1> QED BY <1>1, <1>3

CursorType == [hold : BOOLEAN, pending : BOOLEAN, born : {None, "open", "committed"}]

LEMMA NoCursorIs == NoCursor \in CursorType /\ NoCursor.born = None
BY DEF NoCursor, CursorType

LEMMA CursorsStay ==
    ASSUME CursorInv, cursors' = cursors, Onward
    PROVE  CursorInv'
BY DEF CursorInv, Onward, Kept

\* Statements that touch neither.
Plain ==
    \/ Begin \/ StatementRefused \/ StatementFails \/ Notify \/ NotifyRefused
    \/ \E n \in SaveName : SetSavepoint(n) \/ RollbackToSavepoint(n) \/ ReleaseSavepoint(n)
    \/ \E w \in Row : WriteRow(w) \/ WriteRowFails(w) \/ AutoWrite(w)
    \/ \E C \in {Con} \cup {{c} : c \in Con}, mode \in Modes \ {Unset} : SetConstraints(C, mode)
    \/ BatchBegins \/ BatchEnds

LEMMA PlainIs ==
    ASSUME Shape, Plain
    PROVE  SameGucs /\ cursors' = cursors /\ Onward
<1> DEFINE D == {"state", "batch", "implicit", "pubsub"}
<1>0. /\ DOMAIN conn = D /\ DOMAIN hist = {"base", "sess", "unseen", "lost", "checked", "forgot",
                                           "clean", "stmts", "asides", "budget"}
      /\ conn.state \in {"Auto", "Active", "Failed"}
  BY DEF Shape
<1>1. /\ DOMAIN Entered = D /\ Entered.state \in {"Auto", "Active", "Failed"}
      /\ Entered.state = "Auto" => conn.state = "Auto"
  BY <1>0, EnteredIs
<1>2. ASSUME NEW c, NEW ok, Answered(c, ok), DOMAIN c = D PROVE conn'.state = c.state /\ DOMAIN conn' = D
  BY <1>2, AnsweredIs
<1>3. \A h : DOMAIN h = DOMAIN hist /\ h.base = hist.base /\ h.sess = hist.sess
             /\ h.unseen = hist.unseen /\ h.lost = hist.lost /\ guc' = guc /\ hist' = h => SameGucs
  BY DEF SameGucs
<1>4. CASE Begin
  <2>1. SameGucs /\ cursors' = cursors
    BY <1>0, <1>4 DEF Begin, SameGucs
  <2>2. Onward
    BY <1>0, <1>4 DEF Begin, Answered, Onward, InBlock
  <2> QED BY <2>1, <2>2
<1>5. CASE StatementRefused \/ StatementFails \/ NotifyRefused \/ BatchBegins \/ BatchEnds
  <2>1. SameGucs /\ cursors' = cursors
    BY <1>5 DEF StatementRefused, StatementFails, NotifyRefused, BatchBegins, BatchEnds,
                SameGucs
  <2>2. CASE StatementRefused \/ NotifyRefused \/ BatchBegins \/ BatchEnds
    BY <1>0, <2>1, <2>2 DEF StatementRefused, NotifyRefused, BatchBegins, BatchEnds, Onward,
                            Stays, Answered
  <2>3. CASE StatementFails
    BY <1>0, <1>1, <2>1, <2>3 DEF StatementFails, Answered, Onward
  <2> QED BY <1>5, <2>1, <2>2, <2>3
<1>6. CASE Notify
  BY <1>0, <1>1, <1>6 DEF Notify, Answered, Onward, SameGucs, UsedAside
<1>7. ASSUME NEW n \in SaveName, SetSavepoint(n) \/ RollbackToSavepoint(n) \/ ReleaseSavepoint(n)
      PROVE  SameGucs /\ cursors' = cursors /\ Onward
  <2>1. CASE SetSavepoint(n)
    BY <1>0, <2>1 DEF SetSavepoint, Stays, Answered, Onward, SameGucs, Used
  <2>2. CASE RollbackToSavepoint(n)
    <3>1. SameGucs /\ cursors' = cursors
      BY <1>0, <2>2 DEF RollbackToSavepoint, SameGucs, Used
    <3>2. Onward
      BY <1>0, <2>2 DEF RollbackToSavepoint, Answered, Onward
    <3> QED BY <3>1, <3>2
  <2>3. CASE ReleaseSavepoint(n)
    BY <1>0, <2>3 DEF ReleaseSavepoint, Stays, Answered, Onward, SameGucs, Used
  <2> QED BY <1>7, <2>1, <2>2, <2>3
<1>8. ASSUME NEW w \in Row, WriteRow(w) \/ WriteRowFails(w) \/ AutoWrite(w)
      PROVE  SameGucs /\ cursors' = cursors /\ Onward
  <2>1. CASE WriteRow(w)
    BY <1>0, <1>1, <2>1 DEF WriteRow, Answered, Onward, SameGucs, Used
  <2>2. CASE WriteRowFails(w)
    BY <1>0, <1>1, <2>2 DEF WriteRowFails, Answered, Onward, SameGucs, Used
  <2>3. CASE AutoWrite(w)
    BY <1>0, <2>3 DEF AutoWrite, Onward, SameGucs
  <2> QED BY <1>8, <2>1, <2>2, <2>3
<1>9. ASSUME NEW C, NEW mode, SetConstraints(C, mode)
      PROVE  SameGucs /\ cursors' = cursors /\ Onward
  <2>1. SameGucs /\ cursors' = cursors
    BY <1>0, <1>9 DEF SetConstraints, SameGucs, Used
  <2>2. Onward
    BY <1>0, <1>1, <1>9 DEF SetConstraints, Answered, Onward
  <2> QED BY <2>1, <2>2
<1> QED BY <1>4, <1>5, <1>6, <1>7, <1>8, <1>9 DEF Plain

\* SET, SET LOCAL, RESET and RESET ALL.
LEMMA SetVariableKeeps ==
    ASSUME Shape, GucInv, NEW v \in Setting, NEW local \in BOOLEAN, SetVariable(v, local)
    PROVE  Shape' /\ GucInv' /\ cursors' = cursors /\ Onward
<1> DEFINE inTxn == Entered.state # "Auto"
<1>0. /\ DOMAIN conn = {"state", "batch", "implicit", "pubsub"}
      /\ DOMAIN hist = {"base", "sess", "unseen", "lost", "checked", "forgot", "clean", "stmts",
                        "asides", "budget"}
      /\ guc \in [live : Setting, backup : Setting \cup {None}, pending : Setting \cup {None}]
      /\ None \notin Setting
  BY ConnectionAssumption DEF Shape, Setting, None, Unset
<1>1. /\ DOMAIN Entered = DOMAIN conn /\ Entered.state \in {"Auto", "Active", "Failed"}
      /\ Entered.state = "Auto" => conn.state = "Auto"
  BY EnteredIs
<1>2. conn'.state = Entered.state /\ DOMAIN conn' = DOMAIN conn
  BY <1>0, <1>1, AnsweredIs DEF SetVariable
<1>3. Onward /\ cursors' = cursors
  BY <1>1, <1>2 DEF Onward, SetVariable
<1>4. CASE ~inTxn
  <2>1. /\ guc' = [guc EXCEPT !.live = v] /\ hist' = [hist EXCEPT !.base = v, !.lost = None]
        /\ conn.state = "Auto" /\ conn'.state = "Auto"
    BY <1>1, <1>2, <1>4 DEF SetVariable
  <2>2. guc.backup = None /\ hist.sess = None /\ hist.unseen = None
    BY <2>1 DEF GucInv
  <2>3. Shape'
    BY <1>0, <1>2, <2>1 DEF Shape
  <2>4. GucInv'
    BY <1>0, <2>1, <2>2 DEF GucInv, EndGucs, Standing, Beneath
  <2> QED BY <1>3, <2>3, <2>4
<1>5. CASE inTxn
  <2>1. guc' = [live |-> v, backup |-> IF guc.backup = None THEN guc.live ELSE guc.backup,
                pending |-> IF local THEN guc.pending ELSE v]
    BY <1>0, <1>5 DEF SetVariable, RecordGuc
  <2>2. /\ DOMAIN hist' = DOMAIN hist /\ hist'.base = hist.base /\ hist'.lost = hist.lost
        /\ hist'.sess = IF local THEN hist.sess ELSE v
        /\ hist'.unseen = IF local THEN hist.unseen ELSE None
    BY <1>0, <1>5 DEF SetVariable, UsedAside
  <2>3. guc'.backup = Standing(hist) /\ guc'.backup # None
        /\ Standing(hist') = Standing(hist)
    BY <1>0, <2>1, <2>2 DEF GucInv, Standing
  <2>4. Shape'
    BY <1>0, <1>1, <1>2, <2>1, <2>2 DEF Shape
  <2>5. EndGucs(guc', TRUE).live = IF guc'.pending # None THEN guc'.pending ELSE guc'.backup
    BY <2>3 DEF EndGucs
  <2>6. GucInv'
    <3>1. conn'.state # "Auto"
      BY <1>2, <1>5
    <3>2. CASE local
      <4>1. guc'.pending = guc.pending /\ hist'.sess = hist.sess /\ hist'.unseen = hist.unseen
        BY <2>1, <2>2, <3>2
      <4>2. EndGucs(guc', TRUE).live = EndGucs(guc, TRUE).live
        BY <2>3, <2>5, <4>1 DEF GucInv, EndGucs
      <4>3. Beneath(hist') = Beneath(hist)
        BY <2>3, <4>1 DEF Beneath
      <4> QED BY <2>3, <3>1, <4>1, <4>2, <4>3 DEF GucInv
    <3>3. CASE ~local
      BY <1>0, <2>1, <2>2, <2>3, <2>5, <3>1, <3>3 DEF GucInv, Beneath
    <3> QED BY <3>2, <3>3
  <2> QED BY <1>3, <2>4, <2>6
<1> QED BY <1>4, <1>5

LEMMA ResetAllKeeps ==
    ASSUME Shape, GucInv, ResetAll
    PROVE  Shape' /\ GucInv' /\ cursors' = cursors /\ Onward
<1> DEFINE inTxn == Entered.state # "Auto"
<1>0. /\ DOMAIN conn = {"state", "batch", "implicit", "pubsub"}
      /\ DOMAIN hist = {"base", "sess", "unseen", "lost", "checked", "forgot", "clean", "stmts",
                        "asides", "budget"}
      /\ guc \in [live : Setting, backup : Setting \cup {None}, pending : Setting \cup {None}]
      /\ None \notin Setting /\ Unset \in Setting
  BY ConnectionAssumption DEF Shape, Setting, None, Unset
<1>1. /\ DOMAIN Entered = DOMAIN conn /\ Entered.state \in {"Auto", "Active", "Failed"}
      /\ Entered.state = "Auto" => conn.state = "Auto"
  BY EnteredIs
<1>2. conn'.state = Entered.state /\ DOMAIN conn' = DOMAIN conn
  BY <1>0, <1>1, AnsweredIs DEF ResetAll
<1>3. Onward /\ cursors' = cursors
  BY <1>1, <1>2 DEF Onward, ResetAll
<1>4. CASE ~inTxn
  <2>1. /\ guc' = [guc EXCEPT !.live = Unset] /\ hist' = [hist EXCEPT !.base = Unset, !.lost = None]
        /\ conn.state = "Auto" /\ conn'.state = "Auto"
    BY <1>1, <1>2, <1>4 DEF ResetAll
  <2>2. guc.backup = None /\ hist.sess = None /\ hist.unseen = None
    BY <2>1 DEF GucInv
  <2>3. Shape'
    BY <1>0, <1>2, <2>1 DEF Shape
  <2>4. GucInv'
    BY <1>0, <2>1, <2>2 DEF GucInv, EndGucs, Standing, Beneath
  <2> QED BY <1>3, <2>3, <2>4
<1>5. CASE inTxn
  <2>1. /\ DOMAIN hist' = DOMAIN hist /\ hist'.base = hist.base /\ hist'.lost = hist.lost
        /\ hist'.sess = Unset
        /\ hist'.unseen = IF guc.live = Unset /\ Beneath(hist) # Unset THEN Beneath(hist) ELSE None
    BY <1>0, <1>5 DEF ResetAll, UsedAside
  <2>0. Standing(hist') = Standing(hist) /\ Beneath(hist) \in Setting
    BY <1>0, <2>1 DEF Standing, Beneath, Shape
  <2>2. conn'.state # "Auto"
    BY <1>2, <1>5
  <2>3. CASE guc.live = Unset
    <3>1. guc' = guc
      BY <1>0, <1>5, <2>3 DEF ResetAll
    <3>2. Shape'
      BY <1>0, <1>1, <1>2, <2>0, <2>1, <3>1 DEF Shape
    <3>3. Beneath(hist') = Beneath(hist)
      BY <1>0, <2>0, <2>1, <2>3 DEF Beneath
    <3>4. GucInv'
      BY <1>0, <2>0, <2>1, <2>2, <3>1, <3>3 DEF GucInv
    <3> QED BY <1>3, <3>2, <3>4
  <2>4. CASE guc.live # Unset
    <3>1. guc' = [live |-> Unset, backup |-> IF guc.backup = None THEN guc.live ELSE guc.backup,
                  pending |-> Unset]
      BY <1>0, <1>5, <2>4 DEF ResetAll, RecordGuc
    <3>2. Shape'
      BY <1>0, <1>1, <1>2, <2>1, <2>4, <3>1 DEF Shape
    <3>3. guc'.backup = Standing(hist) /\ guc'.backup # None
      BY <1>0, <3>1 DEF GucInv
    <3>4. EndGucs(guc', TRUE).live = Unset
      BY <1>0, <3>1, <3>3 DEF EndGucs
    <3>5. GucInv'
      BY <1>0, <2>0, <2>1, <2>2, <2>4, <3>3, <3>4 DEF GucInv, Beneath
    <3> QED BY <1>3, <3>2, <3>5
  <2> QED BY <2>3, <2>4
<1> QED BY <1>4, <1>5

\* DECLARE and CLOSE.
LEMMA CursorStep ==
    ASSUME Shape, GucInv, CursorInv, NEW n \in Cursor,
           Close(n) \/ \E hold \in BOOLEAN : Declare(n, hold)
    PROVE  SameGucs /\ Onward /\ CursorInv'
<1>0. /\ DOMAIN conn = {"state", "batch", "implicit", "pubsub"}
      /\ DOMAIN hist = {"base", "sess", "unseen", "lost", "checked", "forgot", "clean", "stmts",
                        "asides", "budget"}
  BY DEF Shape
<1>1. /\ DOMAIN Entered = DOMAIN conn /\ Entered.state \in {"Auto", "Active", "Failed"}
      /\ Entered.state = "Auto" => conn.state = "Auto"
  BY EnteredIs
<1>2. Answered(Entered, TRUE)
  BY DEF Close, Declare
<1>3. conn'.state = Entered.state /\ DOMAIN conn' = DOMAIN conn
  BY <1>0, <1>1, <1>2, AnsweredIs
<1>4. SameGucs
  BY <1>0 DEF Close, Declare, SameGucs, UsedAside
<1>5. Onward
  BY <1>1, <1>3 DEF Onward
<1>6. CASE Close(n)
  <2>1. cursors' = [cursors EXCEPT ![n] = NoCursor]
    BY <1>6 DEF Close
  <2>2. cursors' \in [Cursor -> [hold : BOOLEAN, pending : BOOLEAN,
                                 born : {None, "open", "committed"}]]
    BY <2>1, NoCursorIs DEF CursorInv, CursorType
  <2>3. \A m \in Cursor : cursors'[m] = cursors[m] \/ cursors'[m].born = None
    BY <2>1, NoCursorIs DEF CursorInv
  <2> QED BY <1>4, <1>5, <2>2, <2>3 DEF CursorInv, Onward
<1>7. ASSUME NEW hold \in BOOLEAN, Declare(n, hold) PROVE CursorInv'
  <2> DEFINE declared == [cursors EXCEPT ![n] = [hold |-> hold, pending |-> TRUE, born |-> "open"]]
  <2>1. /\ declared \in [Cursor -> [hold : BOOLEAN, pending : BOOLEAN,
                                    born : {None, "open", "committed"}]]
        /\ declared[n] = [hold |-> hold, pending |-> TRUE, born |-> "open"]
        /\ \A m \in Cursor \ {n} : declared[m] = cursors[m]
    BY DEF CursorInv
  <2>2. CASE Entered.state = "Active"
    <3>1. cursors' = declared
      BY <1>7, <2>2 DEF Declare
    <3>2. conn'.state # "Auto"
      BY <1>3, <2>2
    <3> HIDE DEF declared
    <3>3. \A m \in Cursor : \/ cursors'[m].born = None
                            \/ Kept(cursors'[m])
                            \/ cursors'[m].pending /\ cursors'[m].born = "open"
      BY <2>1, <3>1 DEF CursorInv
    <3> QED BY <2>1, <3>1, <3>2, <3>3 DEF CursorInv
  <2>3. CASE Entered.state # "Active"
    <3>1. cursors' = EndCursors(declared, TRUE, "committed") /\ hold /\ conn.state = "Auto"
      BY <1>1, <1>7, <2>3 DEF Declare
    <3> HIDE DEF declared
    <3>2. \A m \in Cursor : cursors'[m] =
              IF declared[m].hold THEN [declared[m] EXCEPT !.pending = FALSE,
                                                           !.born = IF @ = "open" THEN "committed" ELSE @]
              ELSE NoCursor
      BY <3>1 DEF EndCursors
    <3>3. DOMAIN cursors' = Cursor /\ cursors' = [m \in Cursor |-> cursors'[m]]
      BY <3>1 DEF EndCursors
    <3>4. ASSUME NEW m \in Cursor
          PROVE  /\ cursors'[m] \in [hold : BOOLEAN, pending : BOOLEAN,
                                     born : {None, "open", "committed"}]
                 /\ cursors'[m].born = None \/ Kept(cursors'[m])
      <4>1. declared[m] \in [hold : BOOLEAN, pending : BOOLEAN, born : {None, "open", "committed"}]
        BY <2>1
      <4>2. CASE ~declared[m].hold
        <5>1. cursors'[m] = NoCursor
          BY <3>2, <4>2
        <5> QED BY <5>1, NoCursorIs DEF CursorType
      <4>3. CASE declared[m].hold
        <5>1. /\ cursors'[m].hold /\ ~cursors'[m].pending
              /\ cursors'[m].born = IF declared[m].born = "open" THEN "committed" ELSE declared[m].born
              /\ cursors'[m] \in [hold : BOOLEAN, pending : BOOLEAN,
                                  born : {None, "open", "committed"}]
          BY <3>2, <4>1, <4>3
        <5>2. declared[m].born \in {None, "open", "committed"}
          BY <4>1
        <5> QED BY <5>1, <5>2 DEF Kept
      <4> QED BY <4>2, <4>3
    <3> QED BY <3>3, <3>4 DEF CursorInv
  <2> QED BY <2>2, <2>3
<1> QED BY <1>4, <1>5, <1>6, <1>7

-----------------------------------------------------------------------------
(* The end of a transaction                                                *)

LEMMA EndsSettles ==
    ASSUME SettleInv, NEW kept \in BOOLEAN, NEW truly, NEW control, NEW ok \in BOOLEAN, NEW c,
           DOMAIN c = {"state", "batch", "implicit", "pubsub"},
           Ends(kept, truly, control, ok, c),
           CommittedBy(control, ok, conn.state) => truly = "committed"
    PROVE  SettleInv'
<1>0. /\ Shape /\ GucInv /\ CursorInv
      /\ DOMAIN hist = {"base", "sess", "unseen", "lost", "checked", "forgot", "clean", "stmts",
                        "asides", "budget"}
      /\ guc \in [live : Setting, backup : Setting \cup {None}, pending : Setting \cup {None}]
      /\ None \notin Setting /\ Unset \in Setting
  BY ConnectionAssumption DEF SettleInv, Shape, Setting, None, Unset
<1>1. conn'.state = "Auto" /\ DOMAIN conn' = {"state", "batch", "implicit", "pubsub"}
  BY DEF Ends, Answered
<1>2. guc' = EndGucs(guc, kept)
  BY DEF Ends
<1>3. /\ DOMAIN hist' = DOMAIN hist /\ hist'.sess = None /\ hist'.unseen = None
      /\ hist'.base = IF kept /\ hist.sess # None THEN hist.sess ELSE hist.base
      /\ hist'.lost = IF kept /\ hist.sess # None THEN hist.unseen ELSE hist.lost
  BY <1>0 DEF Ends, Settled, Fresh
<1>4. guc'.live \in Setting /\ guc'.backup = None /\ guc'.pending = None
  BY <1>0, <1>2 DEF EndGucs
<1>5. guc'.live = Standing(hist')
  <2>1. CASE ~kept
    BY <1>0, <1>2, <1>3, <2>1 DEF GucInv, EndGucs, Standing
  <2>2. CASE kept
    <3>1. guc'.live = Beneath(hist)
      BY <1>0, <1>2, <2>2 DEF GucInv
    <3>2. Standing(hist') = Beneath(hist)
      BY <1>0, <1>3, <2>2 DEF GucInv, Standing, Beneath
    <3> QED BY <3>1, <3>2
  <2> QED BY <2>1, <2>2
<1>6. Shape'
  <2>1. guc' \in [live : Setting, backup : Setting \cup {None}, pending : Setting \cup {None}]
    BY <1>0, <1>2, <1>4 DEF EndGucs
  <2> QED BY <1>0, <1>1, <1>3, <1>4, <1>5, <2>1 DEF Shape
<1>7. GucInv'
  <2>1. EndGucs(guc', TRUE).live = guc'.live
    BY <1>4 DEF EndGucs
  <2>2. Beneath(hist') = Standing(hist')
    BY <1>3 DEF Beneath
  <2> QED BY <1>1, <1>3, <1>4, <1>5, <2>1, <2>2 DEF GucInv
<1>8. CursorInv'
  <2>1. CASE conn.state = "Auto"
    BY <1>0, <1>1, <2>1 DEF Ends, CursorInv, Kept
  <2>2. CASE conn.state # "Auto"
    <3> DEFINE com == CommittedBy(control, ok, conn.state)
    <3>1. cursors' = EndCursors(cursors, com, truly)
      BY <2>2 DEF Ends
    <3>2. com => truly = "committed"
      OBVIOUS
    <3> HIDE DEF com
    <3>3. \A m \in Cursor : cursors'[m] =
              IF cursors[m].hold /\ (com \/ ~cursors[m].pending)
              THEN [cursors[m] EXCEPT !.pending = FALSE,
                                      !.born = IF @ = "open" THEN truly ELSE @]
              ELSE NoCursor
      BY <3>1 DEF EndCursors
    <3>4. DOMAIN cursors' = Cursor /\ cursors' = [m \in Cursor |-> cursors'[m]]
      BY <3>1 DEF EndCursors
    <3>5. ASSUME NEW m \in Cursor
          PROVE  /\ cursors'[m] \in [hold : BOOLEAN, pending : BOOLEAN,
                                     born : {None, "open", "committed"}]
                 /\ cursors'[m].born = None \/ Kept(cursors'[m])
      <4>1. /\ cursors[m] \in [hold : BOOLEAN, pending : BOOLEAN, born : {None, "open", "committed"}]
            /\ \/ cursors[m].born = None
               \/ Kept(cursors[m])
               \/ cursors[m].pending /\ cursors[m].born = "open"
        BY <1>0 DEF CursorInv
      <4>2. CASE ~(cursors[m].hold /\ (com \/ ~cursors[m].pending))
        <5>1. cursors'[m] = NoCursor
          BY <3>3, <4>2
        <5> QED BY <5>1, NoCursorIs DEF CursorType
      <4>3. CASE cursors[m].hold /\ (com \/ ~cursors[m].pending)
        <5>1. cursors[m].born = "open" => truly = "committed"
          BY <3>2, <4>1, <4>3 DEF Kept, None
        <5>2. /\ cursors'[m].hold /\ ~cursors'[m].pending
              /\ cursors'[m].born = IF cursors[m].born = "open" THEN truly ELSE cursors[m].born
              /\ cursors'[m] = [hold |-> cursors[m].hold, pending |-> FALSE,
                                born |-> cursors'[m].born]
          BY <3>3, <4>1, <4>3
        <5>3. cursors'[m].born \in {None, "committed"}
          BY <4>1, <5>1, <5>2
        <5>4. cursors[m].hold \in BOOLEAN
          BY <4>1
        <5>5. cursors'[m] \in [hold : BOOLEAN, pending : BOOLEAN,
                               born : {None, "open", "committed"}]
          <6>1. \A h \in BOOLEAN, b \in {None, "committed"} :
                    [hold |-> h, pending |-> FALSE, born |-> b]
                        \in [hold : BOOLEAN, pending : BOOLEAN, born : {None, "open", "committed"}]
            OBVIOUS
          <6>2. cursors'[m] = [hold |-> cursors[m].hold, pending |-> FALSE,
                               born |-> cursors'[m].born]
            BY <5>2
          <6> HIDE DEF None
          <6> QED BY <5>3, <5>4, <6>1, <6>2, Zenon
        <5>6. cursors'[m].born = None \/ Kept(cursors'[m])
          BY <5>2, <5>3 DEF Kept
        <5> QED BY <5>5, <5>6
      <4> QED BY <4>2, <4>3
    <3> QED BY <3>4, <3>5 DEF CursorInv
  <2> QED BY <2>1, <2>2
<1> QED BY <1>6, <1>7, <1>8 DEF SettleInv

\* The ways a transaction ends.
Ending ==
    \/ CommitActive \/ CommitRefused \/ CommitFailedBlock \/ Rollback
    \/ PrepareTransaction \/ PrepareRefused \/ PrepareFailedBlock
    \/ ImplicitCommits \/ ImplicitRollsBack

LEMMA EndingSettles ==
    ASSUME SettleInv, Ending
    PROVE  SettleInv'
<1>0. DOMAIN conn = {"state", "batch", "implicit", "pubsub"}
  BY DEF SettleInv, Shape
<1>1. DOMAIN [conn EXCEPT !.batch = "none"] = {"state", "batch", "implicit", "pubsub"}
  BY <1>0
<1>2. CASE CommitActive
  BY <1>0, <1>2, EndsSettles DEF CommitActive
<1>3. CASE CommitRefused
  BY <1>0, <1>3, EndsSettles DEF CommitRefused, CommittedBy
<1>4. CASE CommitFailedBlock
  BY <1>0, <1>4, EndsSettles DEF CommitFailedBlock, CommittedBy
<1>5. CASE Rollback
  BY <1>0, <1>5, EndsSettles DEF Rollback, CommittedBy
<1>6. CASE PrepareTransaction
  BY <1>0, <1>6, EndsSettles DEF PrepareTransaction, CommittedBy
<1>7. CASE PrepareRefused
  BY <1>0, <1>7, EndsSettles DEF PrepareRefused, CommittedBy
<1>8. CASE PrepareFailedBlock
  BY <1>0, <1>8, EndsSettles DEF PrepareFailedBlock, CommittedBy
<1>9. CASE ImplicitCommits
  BY <1>1, <1>9, EndsSettles DEF ImplicitCommits
<1>10. CASE ImplicitRollsBack
  BY <1>1, <1>10, EndsSettles DEF ImplicitRollsBack, CommittedBy
<1> QED BY <1>2, <1>3, <1>4, <1>5, <1>6, <1>7, <1>8, <1>9, <1>10 DEF Ending

-----------------------------------------------------------------------------
(* The theorems                                                            *)

LEMMA SettleStart == Init => SettleInv
<1> SUFFICES ASSUME Init PROVE SettleInv
  OBVIOUS
<1>0. Unset \in Setting
  BY DEF Setting
<1>1. /\ hist.base = Unset /\ hist.sess = None /\ hist.unseen = None /\ hist.lost = None
      /\ DOMAIN hist = {"base", "sess", "unseen", "lost", "checked", "forgot", "clean", "stmts",
                        "asides", "budget"}
  BY DEF Init
<1>2. guc = [live |-> Unset, backup |-> None, pending |-> None]
      /\ conn = [state |-> "Auto", batch |-> "none", implicit |-> FALSE, pubsub |-> FALSE]
      /\ cursors = [n \in Cursor |-> NoCursor]
  BY DEF Init
<1>3. Shape
  BY <1>0, <1>1, <1>2 DEF Shape
<1>4. GucInv
  BY <1>1, <1>2 DEF GucInv, EndGucs, Standing, Beneath
<1>5. CursorInv
  BY <1>2 DEF CursorInv, NoCursor
<1> QED BY <1>3, <1>4, <1>5 DEF SettleInv

LEMMA SettleStep == SettleInv /\ [Next]_vars => SettleInv'
<1> SUFFICES ASSUME SettleInv, [Next]_vars PROVE SettleInv'
  OBVIOUS
<1>0. Shape /\ GucInv /\ CursorInv
  BY DEF SettleInv
<1>1. CASE UNCHANGED vars
  <2>1. SameGucs /\ cursors' = cursors /\ Onward
    BY <1>0, <1>1 DEF vars, SameGucs, Onward, Shape
  <2> QED BY <1>0, <2>1, GucsStay, CursorsStay DEF SettleInv
<1>2. CASE Plain
  BY <1>0, <1>2, PlainIs, GucsStay, CursorsStay DEF SettleInv
<1>3. CASE Ending
  BY <1>3, EndingSettles
<1>4. CASE ResetAll
  BY <1>0, <1>4, ResetAllKeeps, CursorsStay DEF SettleInv
<1>5. ASSUME NEW v \in Value \cup {Unset}, NEW local \in BOOLEAN, SetVariable(v, local)
      PROVE  SettleInv'
  <2>1. v \in Setting
    BY DEF Setting
  <2> QED BY <1>0, <1>5, <2>1, SetVariableKeeps, CursorsStay DEF SettleInv
<1>6. ASSUME NEW n \in Cursor, Close(n) \/ \E hold \in BOOLEAN : Declare(n, hold)
      PROVE  SettleInv'
  BY <1>0, <1>6, CursorStep, GucsStay DEF SettleInv
<1>7. Next => \/ Plain \/ Ending \/ ResetAll
              \/ \E v \in Value \cup {Unset}, local \in BOOLEAN : SetVariable(v, local)
              \/ \E n \in Cursor : Close(n) \/ \E hold \in BOOLEAN : Declare(n, hold)
  BY DEF Next, Plain, Ending
<1> QED BY <1>1, <1>2, <1>3, <1>4, <1>5, <1>6, <1>7

\* A connection always knows what its transaction's end has to make of its
\* parameters and cursors (record_txn_guc, CursorStore).
THEOREM EndsAreSettled == Spec => []SettleInv
BY SettleStart, SettleStep, PTL DEF Spec

\* end_txn_gucs: between transactions the parameter is what the client's
\* statements left it, whatever transactions ran, failed, were rolled back or
\* prepared before, in a batch or not; after a RESET ALL that was kept and did not
\* see the parameter (reset_all_gucs), it is exactly the value that stayed hidden.
THEOREM ParametersSettle == Spec => []SettingsSettle
<1>1. SettleInv => SettingsSettle
  BY DEF SettleInv, GucInv, SettingsSettle
<1> QED BY <1>1, EndsAreSettled, PTL

\* CursorStore::end_transaction: no cursor outlives a transaction that did not
\* commit, or one it was not declared WITH HOLD in.
THEOREM OnlyHeldCursorsStay == Spec => []CursorsSettle
<1>1. SettleInv => CursorsSettle
  BY DEF SettleInv, CursorInv, CursorsSettle, Kept, Open
<1> QED BY <1>1, EndsAreSettled, PTL

-----------------------------------------------------------------------------
(* Positions                                                               *)

LEMMA HasLeast ==
    ASSUME NEW S \in SUBSET Nat, S # {}
    PROVE  \E x \in S : \A y \in S : x <= y
<1>1. \E x \in S : \A y \in S : ~(<<y, x>> \in OpToRel(<, Nat))
  <2> HIDE DEF OpToRel
  <2> QED BY NatLessThanWellFounded, WFMin, Zenon
<1>2. PICK x \in S : \A y \in S : ~(<<y, x>> \in OpToRel(<, Nat))
  BY <1>1
<1>3. \A y \in S : x <= y
  <2> SUFFICES ASSUME NEW y \in S, ~(x <= y) PROVE FALSE
    OBVIOUS
  <2>1. x \in Nat /\ y \in Nat /\ y < x
    OBVIOUS
  <2>2. <<y, x>> \in OpToRel(<, Nat)
    BY <2>1 DEF OpToRel
  <2> QED BY <2>2, <1>2
<1> QED BY <1>3

LEMMA HasGreatest ==
    ASSUME NEW n \in Nat, NEW S \in SUBSET (0..n), S # {}
    PROVE  \E x \in S : \A y \in S : y <= x
<1> DEFINE Bounds == {b \in Nat : \A y \in S : y <= b}
<1>1. n \in Bounds
  OBVIOUS
<1>2. PICK b \in Bounds : \A c \in Bounds : b <= c
  <2> HIDE DEF Bounds
  <2>1. Bounds \in SUBSET Nat
    BY DEF Bounds
  <2> QED BY <1>1, <2>1, HasLeast
<1>3. b \in S
  <2> SUFFICES ASSUME b \notin S PROVE FALSE
    OBVIOUS
  <2>1. \A y \in S : y \in Nat /\ y <= b /\ y # b
    OBVIOUS
  <2>2. b # 0
    <3>1. PICK y \in S : TRUE
      OBVIOUS
    <3> QED BY <2>1, <3>1
  <2>3. b - 1 \in Bounds
    BY <2>1, <2>2
  <2> QED BY <2>3, <1>2
<1> QED BY <1>3

LEMMA NthIs ==
    ASSUME NEW n \in Nat, NEW at \in SUBSET (1..n)
    PROVE  /\ Cardinality(at) \in Nat
           /\ \A i \in 1..Cardinality(at) : Nth(at, i) \in at /\ Rank(at, Nth(at, i)) = i
<1>1. IsFiniteSet(at)
  <2>1. IsFiniteSet(1..n)
    BY FS_Interval
  <2> QED BY <2>1, FS_Subset
<1>2. PICK C \in Nat : C = Cardinality(at)
  BY <1>1, FS_CardinalityType
<1> DEFINE UpTo(j) == {k \in at : k <= j}
           rank == [j \in at |-> Cardinality(UpTo(j))]
<1>3. \A j \in at : j \in Nat /\ j \in UpTo(j) /\ UpTo(j) \in SUBSET at
  OBVIOUS
<1>4. \A j \in at : rank[j] \in 1..C
  <2> SUFFICES ASSUME NEW j \in at PROVE rank[j] \in 1..C
    OBVIOUS
  <2>1. PICK U : U = UpTo(j) /\ U \in SUBSET at /\ U # {}
    BY <1>3
  <2>2. IsFiniteSet(U) /\ Cardinality(U) <= C
    BY <1>1, <1>2, <2>1, FS_Subset
  <2>3. Cardinality(U) \in Nat /\ Cardinality(U) # 0
    BY <2>1, <2>2, FS_CardinalityType, FS_EmptySet
  <2>4. rank[j] = Cardinality(U)
    BY <2>1
  <2> QED BY <2>2, <2>3, <2>4
<1>5. \A i, j \in at : i < j => rank[i] # rank[j]
  <2> SUFFICES ASSUME NEW i \in at, NEW j \in at, i < j PROVE rank[i] # rank[j]
    OBVIOUS
  <2>1. PICK U, V : U = UpTo(i) /\ V = UpTo(j) /\ U \in SUBSET V /\ V \in SUBSET at /\ U # V
    <3>0. i \in Nat /\ j \in Nat /\ \A k \in at : k \in Nat
      BY <1>3
    <3>1. UpTo(i) \subseteq UpTo(j) /\ j \in UpTo(j) /\ j \notin UpTo(i) /\ UpTo(j) \subseteq at
      <4>1. \A k \in Nat : k <= i => k <= j
        BY <3>0
      <4>2. j <= j /\ ~(j <= i)
        BY <3>0
      <4> QED BY <3>0, <4>1, <4>2
    <3> HIDE DEF UpTo
    <3> QED BY <3>1
  <2>2. IsFiniteSet(V)
    BY <1>1, <2>1, FS_Subset
  <2>3. Cardinality(V) = Cardinality(U) => V = U
    BY <2>1, <2>2, FS_Subset
  <2>4. rank[i] = Cardinality(U) /\ rank[j] = Cardinality(V)
    BY <2>1
  <2> QED BY <2>1, <2>3, <2>4
<1>6. rank \in Injection(at, 1..C)
  <2>1. rank = [j \in at |-> rank[j]]
    OBVIOUS
  <2> HIDE DEF rank
  <2>2. \A i, j \in at : rank[i] = rank[j] => i = j
    BY <1>3, <1>5
  <2> QED BY <1>4, <2>1, <2>2 DEF Injection, IsInjective
<1>7. rank \in Surjection(at, 1..C)
  <2>1. IsFiniteSet(1..C) /\ Cardinality(1..C) = C
    BY FS_Interval
  <2> HIDE DEF rank
  <2> QED BY <1>2, <1>6, <2>1, FS_Injection
<1>8. ASSUME NEW i \in 1..C PROVE Nth(at, i) \in at /\ Rank(at, Nth(at, i)) = i
  <2>1. PICK j \in at : rank[j] = i
    <3> HIDE DEF rank
    <3> QED BY <1>7 DEF Surjection
  <2>2. Cardinality({k \in at : k <= j}) = i
    BY <2>1
  <2> QED BY <2>2 DEF Nth, Rank
<1> QED BY <1>2, <1>8

LEMMA RankIs ==
    ASSUME NEW n \in Nat, NEW at \in SUBSET (1..n)
    PROVE  /\ \A m \in Nat : Rank(at, m) \in 0..Cardinality(at)
           /\ \A l, m \in Nat : l <= m => Rank(at, l) <= Rank(at, m)
           /\ \A l \in Nat, j \in at : l < j => Rank(at, l) < Rank(at, j)
           /\ Rank(at, n) = Cardinality(at)
           /\ \A m \in Nat : m \notin at => \A l \in Nat : l + 1 = m => Rank(at, m) = Rank(at, l)
<1>1. IsFiniteSet(at) /\ Cardinality(at) \in Nat /\ \A j \in at : j \in Nat
  <2>1. IsFiniteSet(1..n)
    BY FS_Interval
  <2>2. IsFiniteSet(at)
    BY <2>1, FS_Subset
  <2>3. Cardinality(at) \in Nat
    BY <2>2, FS_CardinalityType
  <2> QED BY <2>2, <2>3
<1> DEFINE UpTo(m) == {i \in at : i <= m}
<1>2. \A m : UpTo(m) \in SUBSET at /\ Rank(at, m) = Cardinality(UpTo(m))
  BY DEF Rank
<1>3. \A l, m \in Nat : l <= m => UpTo(l) \subseteq UpTo(m)
  <2> SUFFICES ASSUME NEW l \in Nat, NEW m \in Nat, l <= m, NEW i \in UpTo(l) PROVE i \in UpTo(m)
    OBVIOUS
  <2>1. i \in at /\ i \in Nat /\ i <= l
    BY <1>1
  <2>2. i <= m
    BY <2>1
  <2> QED BY <2>1, <2>2
<1>4. \A l \in Nat, j \in at : l < j => j \in UpTo(j) /\ j \notin UpTo(l)
  BY <1>1
<1>5. UpTo(n) = at
  <2>1. \A i \in at : i \in 1..n
    OBVIOUS
  <2>2. \A i \in at : i <= n
    BY <2>1
  <2> QED BY <2>2
<1>6. \A l, m \in Nat : m \notin at /\ l + 1 = m => UpTo(m) = UpTo(l)
  <2> SUFFICES ASSUME NEW l \in Nat, NEW m \in Nat, m \notin at, l + 1 = m PROVE UpTo(m) = UpTo(l)
    OBVIOUS
  <2>1. ASSUME NEW i \in at PROVE i <= m <=> i <= l
    <3>1. i \in Nat /\ i # m
      BY <1>1
    <3> QED BY <3>1
  <2> QED BY <2>1
<1> HIDE DEF UpTo
<1>7. \A m : IsFiniteSet(UpTo(m)) /\ Cardinality(UpTo(m)) \in Nat /\ Cardinality(UpTo(m)) <= Cardinality(at)
  BY <1>1, <1>2, FS_Subset, FS_CardinalityType
<1>8. ASSUME NEW l \in Nat, NEW m \in Nat, l <= m
      PROVE  /\ Rank(at, l) <= Rank(at, m)
             /\ Rank(at, l) = Rank(at, m) => UpTo(l) = UpTo(m)
  BY <1>2, <1>3, <1>7, <1>8, FS_Subset
<1>9. ASSUME NEW l \in Nat, NEW j \in at, l < j PROVE Rank(at, l) < Rank(at, j)
  <2>1. j \in Nat /\ l <= j
    BY <1>1, <1>9
  <2>2. Rank(at, l) <= Rank(at, j) /\ Rank(at, l) # Rank(at, j)
    BY <1>4, <1>8, <1>9, <2>1
  <2> QED BY <1>2, <1>7, <2>2
<1>10. \A m \in Nat : Rank(at, m) \in 0..Cardinality(at)
  BY <1>1, <1>2, <1>7
<1>11. Rank(at, n) = Cardinality(at)
  BY <1>2, <1>5
<1>12. \A m \in Nat : m \notin at => \A l \in Nat : l + 1 = m => Rank(at, m) = Rank(at, l)
  BY <1>2, <1>6
<1> QED BY <1>8, <1>9, <1>10, <1>11, <1>12

\* p is s at the positions `at`.
Picks(p, s, at) ==
    /\ Len(p) = Cardinality(at)
    /\ \A k \in 1..Len(p) : \E j \in at : p[k] = s[j] /\ Rank(at, j) = k
    /\ \A j \in at : Rank(at, j) \in 1..Len(p) /\ p[Rank(at, j)] = s[j]

LEMMA PickIs ==
    ASSUME NEW S, NEW s \in Seq(S), NEW at \in SUBSET (1..Len(s))
    PROVE  Pick(s, at) \in Seq(S) /\ Picks(Pick(s, at), s, at)
<1>0. Len(s) \in Nat
  OBVIOUS
<1>1. PICK n \in Nat, C \in Nat : n = Len(s) /\ C = Cardinality(at)
  <2>1. Cardinality(at) \in Nat
    BY <1>0, NthIs
  <2> QED BY <1>0, <2>1
<1>2. \A i \in 1..C : Nth(at, i) \in at /\ Rank(at, Nth(at, i)) = i
  BY <1>1, NthIs
<1>3. PICK p : p = [i \in 1..C |-> s[Nth(at, i)]] /\ p = Pick(s, at)
  BY <1>1 DEF Pick
<1>4. p \in Seq(S) /\ Len(p) = C
  <2>1. \A i \in 1..C : Nth(at, i) \in 1..n
    BY <1>1, <1>2
  <2>2. \A i \in 1..C : s[Nth(at, i)] \in S
    BY <1>1, <2>1
  <2> QED BY <1>3, <2>2
<1>5. \A k \in 1..C : \E j \in at : p[k] = s[j] /\ Rank(at, j) = k
  BY <1>2, <1>3
<1>6. ASSUME NEW j \in at PROVE Rank(at, j) \in 1..C /\ p[Rank(at, j)] = s[j]
  <2>1. j \in Nat /\ j \in 1..n /\ at \in SUBSET (1..n)
    BY <1>1
  <2>2. 0 < j
    BY <2>1
  <2>3. Rank(at, j) \in 0..C /\ Rank(at, 0) \in 0..C /\ Rank(at, 0) < Rank(at, j)
    BY <1>1, <2>1, <2>2, RankIs
  <2>4. PICK k \in 1..C : k = Rank(at, j)
    BY <2>3
  <2>5. PICK i \in at : i = Nth(at, k) /\ Rank(at, i) = k
    BY <1>2, <2>4
  <2>6. i = j
    <3>1. i \in Nat /\ j \in Nat
      BY <1>1
    <3>2. ~(i < j) /\ ~(j < i)
      <4>1. \A l \in Nat, x \in at : l < x => Rank(at, l) < Rank(at, x)
        BY <2>1, RankIs
      <4> QED BY <2>4, <2>5, <3>1, <4>1
    <3> QED BY <3>1, <3>2
  <2> QED BY <1>3, <2>4, <2>5, <2>6
<1> QED BY <1>1, <1>3, <1>4, <1>5, <1>6 DEF Picks

\* Everything is kept.
LEMMA PickAll ==
    ASSUME NEW S, NEW s \in Seq(S)
    PROVE  Pick(s, 1..Len(s)) = s
<1>1. PICK n \in Nat : n = Len(s)
  OBVIOUS
<1>2. ASSUME NEW j \in 1..n PROVE Rank(1..n, j) = j
  <2>1. {i \in 1..n : i <= j} = 1..j
    BY <1>2
  <2>2. Cardinality(1..j) = j
    BY FS_Interval
  <2> QED BY <2>1, <2>2 DEF Rank
<1>3. PICK p \in Seq(S) : p = Pick(s, 1..n) /\ Picks(p, s, 1..n)
  BY <1>1, PickIs
<1>4. Len(p) = n
  <2>1. Cardinality(1..n) = n
    BY FS_Interval
  <2> QED BY <1>3, <2>1 DEF Picks
<1>5. \A j \in 1..n : p[j] = s[j]
  BY <1>2, <1>3 DEF Picks
<1> QED BY <1>1, <1>3, <1>4, <1>5

-----------------------------------------------------------------------------
(* What the savepoints of a transaction keep of it                         *)

Names == SaveName \cup {Statement}
ModeType == [all : Modes, named : [Con -> Modes]]
SaveType == [name : Names, len : Nat]
MarkType == [name : Names, len : Nat, mode : ModeType]
QueueType == [on : BOOLEAN, entries : Seq(Entry), marks : Seq(MarkType), mode : ModeType]
TxnType == [writes : Seq(Row \cup {Notified}), saves : Seq(SaveType), queue : QueueType]

\* The length marks keep under a name: nothing was queued at a savepoint that has
\* no mark.
LenAt(ms, n) == IF LastNamed(ms, n) = 0 THEN 0 ELSE ms[LastNamed(ms, n)].len

\* Of two savepoints, the earlier one was marked earlier, and between two that
\* were set at the same write nothing was queued.
InOrder(ms, s, t) ==
    /\ s.len <= t.len /\ s.name # t.name
    /\ LastNamed(ms, s.name) = 0 \/ LastNamed(ms, s.name) < LastNamed(ms, t.name)
    /\ s.len = t.len => LenAt(ms, s.name) = LenAt(ms, t.name)

Sound(x) ==
    /\ x \in TxnType
    /\ \A i \in 1..Len(x.saves) :
          /\ x.saves[i].len <= Len(x.writes)
          /\ x.saves[i].len = Len(x.writes) =>
                LenAt(x.queue.marks, x.saves[i].name) = Len(x.queue.entries)
    /\ \A i, j \in 1..Len(x.saves) : i < j => InOrder(x.queue.marks, x.saves[i], x.saves[j])
    /\ Climb(x.queue.marks, Len(x.queue.entries))
    /\ ~x.queue.on => x.queue = NoQueue

\* The first n entries ask about every key the writes ws break.
Asks(e, ck) == e.con = ck[1] /\ e.key \in {ck[2], Whole}
Covers(rs, ws, es, n) == \A ck \in Broken(rs, ws) : \E j \in 1..n : Asks(es[j], ck)

\* A transaction owes a check for every key it broke, and would if it went back
\* to a savepoint set since SET CONSTRAINTS IMMEDIATE last dropped entries.
OwesNow(rs, x) == Covers(rs, x.writes, x.queue.entries, Len(x.queue.entries))
OwedAt(rs, x, since) ==
    \A i \in 1..Len(x.saves) : x.saves[i].len >= since =>
        Covers(rs, SubSeq(x.writes, 1, x.saves[i].len), x.queue.entries,
               LenAt(x.queue.marks, x.saves[i].name))

\* However far the transaction goes back, its rows can be counted.
Countable(rs, ws) ==
    \A n \in 0..Len(ws), c \in Con, k \in Key : Holding(rs, SubSeq(ws, 1, n), c, k) \in 0..MaxRows

\* A savepoint's mark in the NOTIFY queue counts the NOTIFYs before it.
NotifiesIn(ws) == Cardinality({i \in 1..Len(ws) : ws[i] = Notified})
Tallies(len, mk, ws, sv) ==
    /\ len = NotifiesIn(ws)
    /\ \A i \in 1..Len(sv) :
          /\ LastNamed(mk, sv[i].name) # 0
          /\ LenAt(mk, sv[i].name) = NotifiesIn(SubSeq(ws, 1, sv[i].len))
    /\ \A i, j \in 1..Len(sv) : i < j => LastNamed(mk, sv[i].name) < LastNamed(mk, sv[j].name)
Counts(q, x) == Tallies(q.queued, q.marks, x.writes, x.saves)

NotifyType == [queued : Nat, marks : Seq([name : SaveName, len : Nat])]

\* The savepoints of a transaction between two statements.
Own(x) == \A i \in 1..Len(x.saves) : x.saves[i].name \in SaveName

\* The three stores agree on a transaction x with the NOTIFY queue q.
Follows(x, q, clean) ==
    /\ Sound(x) /\ Own(x)
    /\ q \in NotifyType /\ Climb(q.marks, q.queued)
    /\ clean => Counts(q, x)

\* The rows x can go back to, and the checks it owes.
Rowed(rs, x, since, forgot) ==
    /\ rs \in [Con \X Key -> 0..MaxRows]
    /\ Countable(rs, x.writes)
    /\ since \in 0..Len(x.writes)
    /\ ~forgot => /\ \A ck \in Con \X Key : rs[ck] <= 1
                  /\ OwesNow(rs, x) /\ OwedAt(rs, x, since)

ConnType == [state : {"Auto", "Active", "Failed"}, batch : {"none", "running", "failed"},
             implicit : BOOLEAN, pubsub : BOOLEAN]
ConnOK(c) == c \in ConnType /\ (c.implicit => c.state # "Auto" /\ c.batch # "none")

FollowInv ==
    /\ ConnOK(conn)
    /\ conn.state = "Auto" => txn = NoTxn
    /\ hist.clean \in BOOLEAN /\ hist.forgot \in BOOLEAN
    /\ Follows(txn, notify, hist.clean)

RowsInv == Rowed(rows, txn, hist.checked, hist.forgot)

-----------------------------------------------------------------------------
(* The last mark of a name                                                 *)

LEMMA AppendIs ==
    ASSUME NEW S, NEW s \in Seq(S), NEW m \in S
    PROVE  /\ Append(s, m) \in Seq(S) /\ Len(s) \in Nat /\ Len(Append(s, m)) = Len(s) + 1
           /\ Append(s, m)[Len(s) + 1] = m
           /\ \A i \in 1..Len(s) : Append(s, m)[i] = s[i]
OBVIOUS

LEMMA PrefixIs ==
    ASSUME NEW S, NEW s \in Seq(S), NEW p \in 0..Len(s)
    PROVE  /\ SubSeq(s, 1, p) \in Seq(S) /\ Len(SubSeq(s, 1, p)) = p /\ p \in Nat
           /\ \A i \in 1..p : SubSeq(s, 1, p)[i] = s[i]
<1>1. p \in Nat /\ \A i \in 1..p : i \in 1..Len(s)
  OBVIOUS
<1>2. Len(SubSeq(s, 1, p)) = p /\ \A i \in 1..p : SubSeq(s, 1, p)[i] = s[i]
  BY <1>1
<1>3. SubSeq(s, 1, p) \in Seq(S)
  BY <1>1
<1> QED BY <1>1, <1>2, <1>3

IsLast(s, n, k) ==
    /\ k \in 0..Len(s) /\ (k # 0 => s[k].name = n)
    /\ \A j \in 1..Len(s) : s[j].name = n => j <= k

LEMMA LastIs ==
    ASSUME NEW s, Len(s) \in Nat, NEW n
    PROVE  IsLast(s, n, LastNamed(s, n))
<1> DEFINE at == {i \in 1..Len(s) : s[i].name = n}
<1>1. CASE at = {}
  <2>1. LastNamed(s, n) = 0
    BY <1>1 DEF LastNamed
  <2>2. \A j \in 1..Len(s) : s[j].name # n
    BY <1>1
  <2>3. 0 \in 0..Len(s)
    OBVIOUS
  <2> QED BY <2>1, <2>2, <2>3 DEF IsLast
<1>2. CASE at # {}
  <2>1. at \in SUBSET (0..Len(s))
    OBVIOUS
  <2>2. LastNamed(s, n) = CHOOSE i \in at : \A j \in at : j <= i
    BY <1>2 DEF LastNamed
  <2> HIDE DEF at
  <2>3. \E i \in at : \A j \in at : j <= i
    BY <1>2, <2>1, HasGreatest
  <2>4. LastNamed(s, n) \in at /\ \A j \in at : j <= LastNamed(s, n)
    BY <2>2, <2>3
  <2>5. LastNamed(s, n) \in 0..Len(s)
    BY <2>1, <2>4
  <2> QED BY <2>4, <2>5 DEF IsLast, at
<1> QED BY <1>1, <1>2

LEMMA LastFits ==
    ASSUME NEW s, Len(s) \in Nat, NEW n, NEW k, IsLast(s, n, k)
    PROVE  LastNamed(s, n) = k
<1>1. PICK l : l = LastNamed(s, n) /\ IsLast(s, n, l)
  BY LastIs
<1>2. k \in Nat /\ l \in Nat /\ k \in 0..Len(s) /\ l \in 0..Len(s)
  BY <1>1 DEF IsLast
<1>3. k # 0 => k <= l
  BY <1>1, <1>2 DEF IsLast
<1>4. l # 0 => l <= k
  BY <1>1, <1>2 DEF IsLast
<1> QED BY <1>1, <1>2, <1>3, <1>4

LEMMA LastOfAppend ==
    ASSUME NEW S, NEW s \in Seq(S), NEW m \in S, NEW n
    PROVE  /\ m.name = n => LastNamed(Append(s, m), n) = Len(s) + 1
           /\ m.name # n => LastNamed(Append(s, m), n) = LastNamed(s, n)
<1>0. /\ Append(s, m) \in Seq(S)
      /\ Len(s) \in Nat /\ Len(Append(s, m)) = Len(s) + 1 /\ Append(s, m)[Len(s) + 1] = m
      /\ \A i \in 1..Len(s) : Append(s, m)[i] = s[i]
  BY AppendIs
<1>1. PICK k \in Nat, s1 \in Seq(S) :
                           /\ k = Len(s) /\ s1 = Append(s, m) /\ Len(s1) = k + 1 /\ s1[k + 1] = m
                           /\ \A i \in 1..k : s1[i] = s[i]
  BY <1>0
<1>2. CASE m.name = n
  <2>1. IsLast(s1, n, k + 1)
    BY <1>1, <1>2 DEF IsLast
  <2>2. Len(s1) \in Nat
    BY <1>1
  <2>3. LastNamed(s1, n) = k + 1
    BY <2>1, <2>2, LastFits
  <2> QED BY <1>1, <1>2, <2>3
<1>3. CASE m.name # n
  <2>1. PICK l : l = LastNamed(s, n) /\ IsLast(s, n, l)
    BY <1>1, LastIs
  <2>2. l \in 0..k /\ \A j \in 1..(k + 1) : j \in 1..k \/ j = k + 1
    BY <1>1, <2>1 DEF IsLast
  <2>3. l \in 0..(k + 1) /\ (l # 0 => l \in 1..k)
    BY <2>2
  <2>4. IsLast(s1, n, l)
    BY <1>1, <1>3, <2>1, <2>2, <2>3 DEF IsLast
  <2>5. Len(s1) \in Nat
    BY <1>1
  <2>6. LastNamed(s1, n) = l
    BY <2>4, <2>5, LastFits
  <2> QED BY <1>1, <1>3, <2>1, <2>6
<1> QED BY <1>2, <1>3

\* A cut behind the last mark of a name leaves it.
LEMMA LastOfPrefix ==
    ASSUME NEW S, NEW s \in Seq(S), NEW n, NEW p \in 0..Len(s), LastNamed(s, n) <= p
    PROVE  LastNamed(SubSeq(s, 1, p), n) = LastNamed(s, n)
<1>1. PICK s1 : s1 = SubSeq(s, 1, p) /\ Len(s1) = p /\ \A i \in 1..p : s1[i] = s[i]
  BY PrefixIs
<1>2. PICK l : l = LastNamed(s, n) /\ IsLast(s, n, l)
  BY LastIs
<1>3. p \in Nat /\ l \in 0..p /\ (l # 0 => l \in 1..p) /\ 1..p \subseteq 1..Len(s)
  BY <1>2 DEF IsLast
<1>4. IsLast(s1, n, l)
  BY <1>1, <1>2, <1>3 DEF IsLast
<1> QED BY <1>1, <1>2, <1>3, <1>4, LastFits

LEMMA LastOfSame ==
    ASSUME NEW s, NEW s1, Len(s) \in Nat, Len(s1) = Len(s), NEW n,
           \A i \in 1..Len(s) : s1[i].name = s[i].name
    PROVE  LastNamed(s1, n) = LastNamed(s, n)
<1>1. PICK l : l = LastNamed(s, n) /\ IsLast(s, n, l)
  BY LastIs
<1>2. l # 0 => l \in 1..Len(s)
  BY <1>1 DEF IsLast
<1>3. IsLast(s1, n, l)
  BY <1>1, <1>2 DEF IsLast
<1> QED BY <1>1, <1>3, LastFits

LEMMA LastOfNone ==
    ASSUME NEW n
    PROVE  LastNamed(<<>>, n) = 0 /\ LenAt(<<>>, n) = 0
<1>1. IsLast(<<>>, n, 0)
  BY DEF IsLast
<1>2. LastNamed(<<>>, n) = 0
  BY <1>1, LastFits
<1> QED BY <1>2 DEF LenAt

LEMMA LenAtAppend ==
    ASSUME NEW S, NEW s \in Seq(S), NEW m \in S, NEW n
    PROVE  /\ m.name = n => LenAt(Append(s, m), n) = m.len
           /\ m.name # n => LenAt(Append(s, m), n) = LenAt(s, n)
<1>0. /\ Append(s, m) \in Seq(S)
      /\ Len(s) \in Nat /\ Len(Append(s, m)) = Len(s) + 1 /\ Append(s, m)[Len(s) + 1] = m
      /\ \A i \in 1..Len(s) : Append(s, m)[i] = s[i]
  BY AppendIs
<1>1. PICK k \in Nat, s1 \in Seq(S) :
                           /\ k = Len(s) /\ s1 = Append(s, m) /\ s1[k + 1] = m
                           /\ \A i \in 1..k : s1[i] = s[i]
  BY <1>0
<1>2. CASE m.name = n
  <2>1. LastNamed(s1, n) = k + 1 /\ k + 1 # 0
    BY <1>1, <1>2, LastOfAppend
  <2> QED BY <1>1, <1>2, <2>1 DEF LenAt
<1>3. CASE m.name # n
  <2>1. PICK l : l = LastNamed(s, n) /\ IsLast(s, n, l)
    BY <1>1, LastIs
  <2>2. LastNamed(s1, n) = l
    BY <1>1, <1>3, <2>1, LastOfAppend
  <2>3. l # 0 => l \in 1..k
    BY <1>1, <2>1 DEF IsLast
  <2> QED BY <1>1, <1>3, <2>1, <2>2, <2>3 DEF LenAt
<1> QED BY <1>2, <1>3

LEMMA LenAtPrefix ==
    ASSUME NEW S, NEW s \in Seq(S), NEW n, NEW p \in 0..Len(s), LastNamed(s, n) <= p
    PROVE  LenAt(SubSeq(s, 1, p), n) = LenAt(s, n)
<1>1. PICK s1 : s1 = SubSeq(s, 1, p) /\ \A i \in 1..p : s1[i] = s[i]
  BY PrefixIs
<1>2. PICK l : l = LastNamed(s, n) /\ IsLast(s, n, l)
  BY LastIs
<1>3. l # 0 => l \in 1..p
  BY <1>2 DEF IsLast
<1>4. LastNamed(s1, n) = l
  BY <1>1, <1>2, LastOfPrefix
<1> QED BY <1>1, <1>2, <1>3, <1>4 DEF LenAt

-----------------------------------------------------------------------------
(* A new savepoint among the others                                        *)

\* y is the savepoints sv without those named n, in their order, and then s.
Joined(y, sv, n, s) ==
    /\ Len(y) \in Nat \ {0} /\ y[Len(y)] = s
    /\ \A k \in 1..(Len(y) - 1) : \E i \in 1..Len(sv) : y[k] = sv[i] /\ sv[i].name # n
    /\ \A k, l \in 1..(Len(y) - 1) : k < l =>
          \E i, j \in 1..Len(sv) : i < j /\ y[k] = sv[i] /\ y[l] = sv[j]

LEMMA JoinedIs ==
    ASSUME NEW S, NEW sv \in Seq(S), NEW n, NEW s \in S
    PROVE  LET y == Append(Pick(sv, {i \in 1..Len(sv) : sv[i].name # n}), s)
           IN  y \in Seq(S) /\ Joined(y, sv, n, s)
<1> DEFINE at == {i \in 1..Len(sv) : sv[i].name # n}
<1>0. PICK z \in Nat : z = Len(sv)
  OBVIOUS
<1>1. at \in SUBSET (1..z)
  BY <1>0
<1>2. PICK p \in Seq(S) : p = Pick(sv, at) /\ Picks(p, sv, at)
  <2> HIDE DEF at
  <2> QED BY <1>0, <1>1, PickIs
<1>3. PICK K \in Nat, y \in Seq(S) : /\ K = Len(p) /\ y = Append(p, s) /\ Len(y) = K + 1 /\ y[K + 1] = s
                                     /\ \A i \in 1..K : y[i] = p[i]
  <2>1. /\ Append(p, s) \in Seq(S) /\ Len(p) \in Nat /\ Len(Append(p, s)) = Len(p) + 1
        /\ Append(p, s)[Len(p) + 1] = s /\ \A i \in 1..Len(p) : Append(p, s)[i] = p[i]
    BY AppendIs
  <2> QED BY <2>1
<1>4. \A k \in 1..K : \E i \in at : y[k] = sv[i] /\ Rank(at, i) = k
  <2> HIDE DEF at
  <2> QED BY <1>2, <1>3 DEF Picks
<1>5. \A i, j \in at : Rank(at, i) < Rank(at, j) => i < j
  <2> HIDE DEF at
  <2>1. \A i \in at : i \in Nat
    BY <1>1
  <2>2. \A i, j \in Nat : i <= j => Rank(at, i) <= Rank(at, j)
    BY <1>1, RankIs
  <2>3. \A i \in Nat : Rank(at, i) \in 0..Cardinality(at)
    BY <1>1, RankIs
  <2>4. Cardinality(at) \in Nat
    BY <1>1, NthIs
  <2> SUFFICES ASSUME NEW i \in at, NEW j \in at, Rank(at, i) < Rank(at, j), ~(i < j) PROVE FALSE
    OBVIOUS
  <2>5. i \in Nat /\ j \in Nat /\ j <= i
    BY <2>1
  <2>6. Rank(at, j) <= Rank(at, i) /\ Rank(at, i) \in Nat /\ Rank(at, j) \in Nat
    BY <2>2, <2>3, <2>4, <2>5
  <2> QED BY <2>6
<1>6. \A i \in at : i \in 1..Len(sv) /\ sv[i].name # n
  OBVIOUS
<1> HIDE DEF at
<1>7. (K + 1) - 1 = K /\ K + 1 \in Nat \ {0}
  OBVIOUS
<1>8. \A k \in 1..K : \E i \in 1..Len(sv) : y[k] = sv[i] /\ sv[i].name # n
  BY <1>4, <1>6
<1>9. ASSUME NEW k \in 1..K, NEW l \in 1..K, k < l
      PROVE  \E i, j \in 1..Len(sv) : i < j /\ y[k] = sv[i] /\ y[l] = sv[j]
  <2>1. PICK i \in at : y[k] = sv[i] /\ Rank(at, i) = k
    BY <1>4
  <2>2. PICK j \in at : y[l] = sv[j] /\ Rank(at, j) = l
    BY <1>4
  <2>3. i < j
    BY <1>5, <1>9, <2>1, <2>2
  <2> QED BY <1>6, <2>1, <2>2, <2>3
<1>10. Joined(y, sv, n, s)
  BY <1>3, <1>7, <1>8, <1>9 DEF Joined
<1> QED BY <1>2, <1>3, <1>10 DEF at

\* The fields of a transaction.
LEMMA TxnFields ==
    ASSUME NEW x \in TxnType
    PROVE  /\ x.writes \in Seq(Row \cup {Notified}) /\ x.saves \in Seq(SaveType)
           /\ x.queue \in QueueType
           /\ x.queue.on \in BOOLEAN /\ x.queue.entries \in Seq(Entry)
           /\ x.queue.marks \in Seq(MarkType) /\ x.queue.mode \in ModeType
           /\ Len(x.writes) \in Nat /\ Len(x.saves) \in Nat /\ Len(x.queue.entries) \in Nat
           /\ Len(x.queue.marks) \in Nat
<1>1. /\ x.writes \in Seq(Row \cup {Notified}) /\ x.saves \in Seq(SaveType) /\ x.queue \in QueueType
  BY DEF TxnType
<1>2. /\ x.queue.on \in BOOLEAN /\ x.queue.entries \in Seq(Entry)
      /\ x.queue.marks \in Seq(MarkType) /\ x.queue.mode \in ModeType
  BY <1>1 DEF QueueType
<1> QED BY <1>1, <1>2

LEMMA SavepointIs ==
    ASSUME NEW x \in TxnType, NEW n \in Names
    PROVE  LET y == Savepoint(x, n)
               s == [name |-> n, len |-> Len(x.writes)]
               m == [name |-> n, len |-> Len(x.queue.entries), mode |-> x.queue.mode]
           IN  /\ y \in TxnType /\ y.writes = x.writes
               /\ y.saves = Append(Pick(x.saves, {i \in 1..Len(x.saves) : x.saves[i].name # n}), s)
               /\ s \in SaveType /\ s.name = n /\ s.len = Len(x.writes)
               /\ m \in MarkType /\ m.name = n /\ m.len = Len(x.queue.entries)
               /\ y.queue.on = x.queue.on /\ y.queue.entries = x.queue.entries
               /\ y.queue.mode = x.queue.mode
               /\ x.queue.on => y.queue.marks = Append(x.queue.marks, m)
               /\ ~x.queue.on => y.queue = x.queue
<1> DEFINE y == Savepoint(x, n)
           s == [name |-> n, len |-> Len(x.writes)]
           m == [name |-> n, len |-> Len(x.queue.entries), mode |-> x.queue.mode]
           sv == Append(Pick(x.saves, {i \in 1..Len(x.saves) : x.saves[i].name # n}), s)
           mk == IF x.queue.on THEN Append(x.queue.marks, m) ELSE x.queue.marks
<1>1. s \in SaveType /\ s.name = n /\ s.len = Len(x.writes)
  BY TxnFields DEF SaveType
<1>2. m \in MarkType /\ m.name = n /\ m.len = Len(x.queue.entries)
  BY TxnFields DEF MarkType
<1>3. sv \in Seq(SaveType)
  <2> HIDE DEF s
  <2> QED BY <1>1, TxnFields, JoinedIs
<1>4. mk \in Seq(MarkType)
  <2> HIDE DEF m
  <2>1. x.queue.marks \in Seq(MarkType)
    BY TxnFields
  <2>2. Append(x.queue.marks, m) \in Seq(MarkType)
    BY <1>2, <2>1
  <2> QED BY <2>1, <2>2
<1>5. y = [x EXCEPT !.saves = sv, !.queue.marks = mk]
  BY DEF Savepoint
<1> HIDE DEF y, sv, mk
<1>6. /\ y.writes = x.writes /\ y.saves = sv /\ y.queue = [x.queue EXCEPT !.marks = mk]
      /\ DOMAIN y = DOMAIN x
  BY <1>5 DEF TxnType
<1>7. [x.queue EXCEPT !.marks = mk] \in QueueType
  BY <1>4, TxnFields DEF QueueType
<1>8. y \in TxnType
  <2>1. y = [writes |-> x.writes, saves |-> sv, queue |-> [x.queue EXCEPT !.marks = mk]]
    BY <1>5 DEF TxnType
  <2> QED BY <1>3, <1>7, <2>1, TxnFields DEF TxnType
<1>9. /\ y.queue.on = x.queue.on /\ y.queue.entries = x.queue.entries /\ y.queue.marks = mk
      /\ y.queue.mode = x.queue.mode
  BY <1>6, TxnFields DEF QueueType
<1>10. ~x.queue.on => y.queue = x.queue
  BY <1>6, TxnFields DEF QueueType, mk
<1> QED BY <1>1, <1>2, <1>6, <1>8, <1>9, <1>10 DEF y, sv, mk

LEMMA LenAtIs ==
    ASSUME NEW S, NEW ms \in Seq(S), NEW len \in Nat, Climb(ms, len), NEW n
    PROVE  /\ LenAt(ms, n) \in 0..len
           /\ LastNamed(ms, n) \in 0..Len(ms)
           /\ LastNamed(ms, n) # 0 => /\ LastNamed(ms, n) \in DOMAIN ms
                                      /\ LenAt(ms, n) = ms[LastNamed(ms, n)].len
<1>1. PICK l : l = LastNamed(ms, n) /\ IsLast(ms, n, l)
  BY LastIs
<1>2. l \in 0..Len(ms) /\ DOMAIN ms = 1..Len(ms) /\ Len(ms) \in Nat
  BY <1>1 DEF IsLast
<1>3. l # 0 => l \in DOMAIN ms
  BY <1>2
<1>4. l # 0 => ms[l].len \in 0..len
  BY <1>3 DEF Climb
<1> QED BY <1>1, <1>2, <1>3, <1>4 DEF LenAt

\* What was marked earlier is no longer.
LEMMA LenAtClimbs ==
    ASSUME NEW S, NEW ms \in Seq(S), NEW len \in Nat, Climb(ms, len), NEW a, NEW b,
           LastNamed(ms, a) = 0 \/ LastNamed(ms, a) < LastNamed(ms, b)
    PROVE  LenAt(ms, a) <= LenAt(ms, b)
<1>1. LenAt(ms, b) \in 0..len /\ LastNamed(ms, b) \in 0..Len(ms) /\ LastNamed(ms, a) \in 0..Len(ms)
  BY LenAtIs
<1>2. CASE LastNamed(ms, a) = 0
  BY <1>1, <1>2 DEF LenAt
<1>3. CASE LastNamed(ms, a) # 0
  <2>1. LastNamed(ms, a) < LastNamed(ms, b) /\ LastNamed(ms, b) # 0
    BY <1>1, <1>3
  <2>2. /\ LastNamed(ms, a) \in DOMAIN ms /\ LenAt(ms, a) = ms[LastNamed(ms, a)].len
        /\ LastNamed(ms, b) \in DOMAIN ms /\ LenAt(ms, b) = ms[LastNamed(ms, b)].len
    BY <1>3, <2>1, LenAtIs
  <2> QED BY <2>1, <2>2 DEF Climb
<1> QED BY <1>2, <1>3

LEMMA ClimbAppend ==
    ASSUME NEW S, NEW ms \in Seq(S), NEW len \in Nat, Climb(ms, len), NEW m \in S, m.len = len
    PROVE  Climb(Append(ms, m), len)
<1>1. PICK z \in Nat, a \in Seq(S) : /\ z = Len(ms) /\ a = Append(ms, m) /\ Len(a) = z + 1
                                     /\ a[z + 1] = m /\ \A i \in 1..z : a[i] = ms[i]
  <2>1. /\ Append(ms, m) \in Seq(S) /\ Len(ms) \in Nat /\ Len(Append(ms, m)) = Len(ms) + 1
        /\ Append(ms, m)[Len(ms) + 1] = m /\ \A i \in 1..Len(ms) : Append(ms, m)[i] = ms[i]
    BY AppendIs
  <2> QED BY <2>1
<1>2. DOMAIN a = 1..(z + 1) /\ DOMAIN ms = 1..z
  <2>1. \A s \in Seq(S) : DOMAIN s = 1..Len(s)
    OBVIOUS
  <2> QED BY <1>1, <2>1
<1>3. /\ \A i \in 1..z : ms[i].len \in 0..len
      /\ \A i, j \in 1..z : i < j => ms[i].len <= ms[j].len
  BY <1>2 DEF Climb
<1>4. \A i \in 1..(z + 1) : i \in 1..z \/ i = z + 1
  OBVIOUS
<1>5. \A i \in 1..(z + 1) : a[i].len \in 0..len
  BY <1>1, <1>3, <1>4
<1>6. ASSUME NEW i \in 1..(z + 1), NEW j \in 1..(z + 1), i < j PROVE a[i].len <= a[j].len
  <2>1. i \in 1..z
    BY <1>6
  <2>2. CASE j \in 1..z
    BY <1>1, <1>3, <1>6, <2>1, <2>2
  <2>3. CASE j = z + 1
    BY <1>1, <1>3, <2>1, <2>3
  <2> QED BY <1>4, <2>2, <2>3
<1> QED BY <1>1, <1>2, <1>5, <1>6 DEF Climb

\* The marks that SAVEPOINT n leaves.
MarkedNow(x, n, mk) ==
    /\ Climb(mk, Len(x.queue.entries))
    /\ LenAt(mk, n) = Len(x.queue.entries)
    /\ \A k : k # n => /\ LastNamed(mk, k) = LastNamed(x.queue.marks, k)
                       /\ LenAt(mk, k) = LenAt(x.queue.marks, k)
                       /\ LastNamed(mk, k) = 0 \/ LastNamed(mk, k) < LastNamed(mk, n)

LEMMA MarkedNowIs ==
    ASSUME NEW x, Sound(x), NEW n \in Names
    PROVE  MarkedNow(x, n, Savepoint(x, n).queue.marks)
<1> DEFINE y == Savepoint(x, n)
           m == [name |-> n, len |-> Len(x.queue.entries), mode |-> x.queue.mode]
<1>0. x \in TxnType /\ Climb(x.queue.marks, Len(x.queue.entries)) /\ (~x.queue.on => x.queue = NoQueue)
  BY DEF Sound
<1>1. PICK e \in Nat, mk \in Seq(MarkType), z \in Nat :
          e = Len(x.queue.entries) /\ mk = x.queue.marks /\ z = Len(mk) /\ Climb(mk, e)
  BY <1>0, TxnFields
<1>2. CASE x.queue.on
  <2>1. y.queue.marks = Append(mk, m) /\ m \in MarkType /\ m.name = n /\ m.len = e
    BY <1>0, <1>1, <1>2, SavepointIs
  <2> HIDE DEF m, y
  <2>2. LastNamed(Append(mk, m), n) = z + 1 /\ LenAt(Append(mk, m), n) = e
    BY <1>1, <2>1, LastOfAppend, LenAtAppend
  <2>3. ASSUME NEW k, k # n
        PROVE  LastNamed(Append(mk, m), k) = LastNamed(mk, k) /\ LenAt(Append(mk, m), k) = LenAt(mk, k)
    BY <2>1, <2>3, LastOfAppend, LenAtAppend
  <2>4. \A k : LastNamed(mk, k) \in 0..z
    BY <1>1, LenAtIs
  <2>5. \A k : LastNamed(mk, k) < z + 1
    BY <2>4
  <2>6. Climb(Append(mk, m), e)
    BY <1>1, <2>1, ClimbAppend
  <2> QED BY <1>1, <2>1, <2>2, <2>3, <2>5, <2>6 DEF MarkedNow, y
<1>3. CASE ~x.queue.on
  <2>1. y.queue = NoQueue /\ x.queue = NoQueue
    BY <1>0, <1>3, SavepointIs
  <2>2. y.queue.marks = <<>> /\ x.queue.marks = <<>> /\ e = 0
    BY <1>1, <2>1 DEF NoQueue
  <2> HIDE DEF y
  <2>3. \A k : LastNamed(<<>>, k) = 0 /\ LenAt(<<>>, k) = 0
    BY LastOfNone
  <2> QED BY <1>1, <2>2, <2>3 DEF MarkedNow, y
<1> QED BY <1>2, <1>3

LEMMA SavepointSound ==
    ASSUME NEW x, Sound(x), NEW n \in Names
    PROVE  Sound(Savepoint(x, n))
<1> DEFINE s == [name |-> n, len |-> Len(x.writes)]
<1>0. x \in TxnType /\ (~x.queue.on => x.queue = NoQueue)
  BY DEF Sound
<1>1. PICK y \in TxnType : /\ y = Savepoint(x, n) /\ y.writes = x.writes
                           /\ y.queue.entries = x.queue.entries
                           /\ s \in SaveType /\ s.name = n /\ s.len = Len(x.writes)
                           /\ Joined(y.saves, x.saves, n, s)
                           /\ ~y.queue.on => y.queue = NoQueue
  <2> DEFINE at == {i \in 1..Len(x.saves) : x.saves[i].name # n}
             y == Savepoint(x, n)
  <2>1. /\ y \in TxnType /\ y.writes = x.writes
        /\ y.saves = Append(Pick(x.saves, at), s)
        /\ s \in SaveType /\ s.name = n /\ s.len = Len(x.writes)
        /\ y.queue.on = x.queue.on /\ y.queue.entries = x.queue.entries
        /\ ~x.queue.on => y.queue = x.queue
    BY <1>0, SavepointIs
  <2>2. x.saves \in Seq(SaveType)
    BY <1>0, TxnFields
  <2> HIDE DEF s, y
  <2>3. Joined(Append(Pick(x.saves, at), s), x.saves, n, s)
    BY <2>1, <2>2, JoinedIs
  <2> QED BY <1>0, <2>1, <2>3 DEF y
<1> HIDE DEF s
<1>2. PICK mk : mk = y.queue.marks /\ MarkedNow(x, n, mk)
  BY <1>1, MarkedNowIs
<1>3. PICK w \in Nat, e \in Nat : w = Len(x.writes) /\ e = Len(x.queue.entries)
  BY <1>0, TxnFields
<1>4. ASSUME NEW i \in 1..Len(x.saves), x.saves[i].name # n
      PROVE  /\ x.saves[i].len <= w
             /\ x.saves[i].len = w => LenAt(mk, x.saves[i].name) = e
             /\ InOrder(mk, x.saves[i], s)
  <2>1. x.saves[i].len <= w /\ (x.saves[i].len = w => LenAt(mk, x.saves[i].name) = e)
    BY <1>2, <1>3, <1>4 DEF Sound, MarkedNow
  <2> QED BY <1>1, <1>2, <1>3, <1>4, <2>1 DEF InOrder, MarkedNow
<1>5. ASSUME NEW i \in 1..Len(x.saves), NEW j \in 1..Len(x.saves), i < j,
             x.saves[i].name # n, x.saves[j].name # n
      PROVE  InOrder(mk, x.saves[i], x.saves[j])
  <2>1. InOrder(x.queue.marks, x.saves[i], x.saves[j])
    BY <1>5 DEF Sound
  <2> QED BY <1>2, <1>5, <2>1 DEF InOrder, MarkedNow
<1>6. PICK z \in Nat : z = Len(y.saves) /\ z # 0 /\ y.saves[z] = s
  BY <1>1 DEF Joined
<1>7. \A k \in 1..z : k \in 1..(z - 1) \/ k = z
  OBVIOUS
<1>8. \A k \in 1..(z - 1) : \E i \in 1..Len(x.saves) : y.saves[k] = x.saves[i] /\ x.saves[i].name # n
  BY <1>1, <1>6 DEF Joined
<1>9. ASSUME NEW k \in 1..z
      PROVE  y.saves[k].len <= w /\ (y.saves[k].len = w => LenAt(mk, y.saves[k].name) = e)
  <2>1. CASE k = z
    BY <1>1, <1>2, <1>3, <1>6, <2>1 DEF MarkedNow
  <2>2. CASE k \in 1..(z - 1)
    BY <1>4, <1>8, <2>2
  <2> QED BY <1>7, <2>1, <2>2
<1>10. ASSUME NEW k \in 1..z, NEW l \in 1..z, k < l PROVE InOrder(mk, y.saves[k], y.saves[l])
  <2>1. k \in 1..(z - 1)
    BY <1>10
  <2>2. CASE l = z
    <3>1. PICK i \in 1..Len(x.saves) : y.saves[k] = x.saves[i] /\ x.saves[i].name # n
      BY <1>8, <2>1
    <3> QED BY <1>4, <1>6, <2>2, <3>1
  <2>3. CASE l \in 1..(z - 1)
    <3>1. PICK i \in 1..Len(x.saves), j \in 1..Len(x.saves) :
              i < j /\ y.saves[k] = x.saves[i] /\ y.saves[l] = x.saves[j]
      BY <1>1, <1>6, <1>10, <2>1, <2>3 DEF Joined
    <3>2. x.saves[i].name # n /\ x.saves[j].name # n
      BY <1>8, <2>1, <2>3, <3>1
    <3> QED BY <1>5, <3>1, <3>2
  <2> QED BY <1>7, <2>2, <2>3
<1>11. Climb(y.queue.marks, Len(y.queue.entries))
  BY <1>1, <1>2 DEF MarkedNow
<1> QED BY <1>1, <1>2, <1>3, <1>6, <1>9, <1>10, <1>11 DEF Sound

\* The savepoint's own length and everything queued so far cover what is broken.
LEMMA SavepointOwed ==
    ASSUME NEW x, Sound(x), NEW n \in Names, NEW rs, NEW since, OwesNow(rs, x), OwedAt(rs, x, since)
    PROVE  OwesNow(rs, Savepoint(x, n)) /\ OwedAt(rs, Savepoint(x, n), since)
<1> DEFINE s == [name |-> n, len |-> Len(x.writes)]
<1>0. x \in TxnType
  BY DEF Sound
<1>1. PICK y \in TxnType : /\ y = Savepoint(x, n) /\ y.writes = x.writes
                           /\ y.queue.entries = x.queue.entries
                           /\ s.name = n /\ s.len = Len(x.writes)
                           /\ Joined(y.saves, x.saves, n, s)
  <2> DEFINE at == {i \in 1..Len(x.saves) : x.saves[i].name # n}
             y == Savepoint(x, n)
  <2>1. /\ y \in TxnType /\ y.writes = x.writes
        /\ y.saves = Append(Pick(x.saves, at), s)
        /\ s \in SaveType /\ s.name = n /\ s.len = Len(x.writes)
        /\ y.queue.entries = x.queue.entries
    BY <1>0, SavepointIs
  <2>2. x.saves \in Seq(SaveType)
    BY <1>0, TxnFields
  <2> HIDE DEF s, y
  <2>3. Joined(Append(Pick(x.saves, at), s), x.saves, n, s)
    BY <2>1, <2>2, JoinedIs
  <2> QED BY <2>1, <2>3 DEF y
<1> HIDE DEF s
<1>2. PICK mk : mk = y.queue.marks /\ MarkedNow(x, n, mk)
  BY <1>1, MarkedNowIs
<1>3. PICK es : es = x.queue.entries
  OBVIOUS
<1>4. OwesNow(rs, y)
  BY <1>1 DEF OwesNow
<1>5. SubSeq(x.writes, 1, Len(x.writes)) = x.writes
  BY <1>0, TxnFields
<1>6. PICK z \in Nat : z = Len(y.saves) /\ z # 0 /\ y.saves[z] = s
  BY <1>1 DEF Joined
<1>7. ASSUME NEW k \in 1..z, y.saves[k].len >= since
      PROVE  Covers(rs, SubSeq(x.writes, 1, y.saves[k].len), es, LenAt(mk, y.saves[k].name))
  <2>1. CASE k = z
    <3>1. Covers(rs, x.writes, es, Len(es))
      BY <1>3 DEF OwesNow
    <3>2. LenAt(mk, n) = Len(es)
      BY <1>2, <1>3 DEF MarkedNow
    <3>3. y.saves[k].len = Len(x.writes) /\ y.saves[k].name = n
      BY <1>1, <1>6, <2>1
    <3> QED BY <1>5, <3>1, <3>2, <3>3
  <2>2. CASE k # z
    <3>1. k \in 1..(z - 1)
      BY <2>2
    <3>2. PICK i \in 1..Len(x.saves) : y.saves[k] = x.saves[i] /\ x.saves[i].name # n
      BY <1>1, <1>6, <3>1 DEF Joined
    <3>3. Covers(rs, SubSeq(x.writes, 1, x.saves[i].len), es, LenAt(x.queue.marks, x.saves[i].name))
      BY <1>3, <1>7, <3>2 DEF OwedAt
    <3>4. LenAt(mk, x.saves[i].name) = LenAt(x.queue.marks, x.saves[i].name)
      BY <1>2, <3>2 DEF MarkedNow
    <3> QED BY <3>2, <3>3, <3>4
  <2> QED BY <2>1, <2>2
<1>8. OwedAt(rs, y, since)
  BY <1>1, <1>2, <1>3, <1>6, <1>7 DEF OwedAt
<1> QED BY <1>1, <1>4, <1>8

-----------------------------------------------------------------------------
(* Going back to a savepoint                                               *)

\* The marks that are left once everything behind the savepoint is gone, and
\* once it is itself: those of the savepoints before it are.
LEMMA MarksCut ==
    ASSUME NEW mk \in Seq(MarkType), NEW n, NEW p \in 0..Len(mk),
           LastNamed(mk, n) = 0 \/ LastNamed(mk, n) <= p
    PROVE  /\ LastNamed(SubSeq(mk, 1, p), n) = LastNamed(mk, n)
           /\ LenAt(SubSeq(mk, 1, p), n) = LenAt(mk, n)
<1>1. LastNamed(mk, n) <= p
  OBVIOUS
<1> QED BY <1>1, LastOfPrefix, LenAtPrefix

LEMMA ClimbCut ==
    ASSUME NEW S, NEW ms \in Seq(S), NEW len \in Nat, Climb(ms, len), NEW p \in 0..Len(ms)
    PROVE  /\ Climb(SubSeq(ms, 1, p), len)
           /\ p # 0 => Climb(SubSeq(ms, 1, p), ms[p].len)
<1>1. PICK c \in Seq(S) : c = SubSeq(ms, 1, p) /\ Len(c) = p /\ p \in Nat /\ \A i \in 1..p : c[i] = ms[i]
  BY PrefixIs
<1>2. DOMAIN c = 1..p /\ DOMAIN ms = 1..Len(ms) /\ 1..p \subseteq 1..Len(ms)
  BY <1>1
<1>3. /\ \A i \in 1..p : ms[i].len \in 0..len
      /\ \A i, j \in 1..p : i < j => ms[i].len <= ms[j].len
  BY <1>2 DEF Climb
<1>4. Climb(c, len)
  BY <1>1, <1>2, <1>3 DEF Climb
<1>5. ASSUME p # 0 PROVE Climb(c, ms[p].len)
  <2>1. p \in 1..p
    BY <1>1, <1>5
  <2>2. \A i \in 1..p : i < p \/ i = p
    BY <1>1
  <2>3. \A i \in 1..p : ms[i].len \in Nat
    BY <1>3
  <2>4. \A i \in 1..p : ms[i].len <= ms[p].len
    BY <1>3, <2>1, <2>2, <2>3
  <2>5. \A i \in 1..p : c[i].len \in 0..ms[p].len
    BY <1>1, <2>1, <2>3, <2>4
  <2> QED BY <1>1, <1>2, <1>3, <2>5 DEF Climb
<1> QED BY <1>1, <1>4, <1>5

\* The savepoint ROLLBACK TO n and RELEASE n find.
LEMMA SavedIs ==
    ASSUME NEW x \in TxnType, NEW n, HasSave(x, n)
    PROVE  Saved(x, n) \in 1..Len(x.saves) /\ x.saves[Saved(x, n)].name = n
<1>1. PICK p : p = Saved(x, n) /\ IsLast(x.saves, n, p)
  BY TxnFields, LastIs DEF Saved
<1>2. p > 0
  BY <1>1 DEF HasSave
<1>3. Len(x.saves) \in Nat
  BY TxnFields
<1>4. p \in 0..Len(x.saves)
  BY <1>1 DEF IsLast
<1>5. p \in 1..Len(x.saves) /\ p # 0
  BY <1>2, <1>3, <1>4
<1> QED BY <1>1, <1>5 DEF IsLast

LEMMA NoQueueIs == NoQueue \in QueueType /\ NoQueue.entries = <<>> /\ NoQueue.marks = <<>> /\ ~NoQueue.on
<1>1. NoMode \in ModeType
  BY DEF NoMode, ModeType, Modes
<1> QED BY <1>1 DEF NoQueue, QueueType

LEMMA SaveFields ==
    ASSUME NEW sv \in Seq(SaveType), NEW i \in 1..Len(sv)
    PROVE  sv[i] \in SaveType /\ sv[i].name \in Names /\ sv[i].len \in Nat
<1>1. sv[i] \in SaveType
  OBVIOUS
<1> QED BY <1>1 DEF SaveType

LEMMA MarkFields ==
    ASSUME NEW mk \in Seq(MarkType), NEW i \in 1..Len(mk)
    PROVE  /\ mk[i] \in MarkType /\ mk[i].name \in Names /\ mk[i].len \in Nat
           /\ mk[i].mode \in ModeType
<1>1. mk[i] \in MarkType
  OBVIOUS
<1> QED BY <1>1 DEF MarkType

LEMMA PrefixPrefix ==
    ASSUME NEW S, NEW s \in Seq(S), NEW p \in 0..Len(s), NEW q \in 0..p
    PROVE  SubSeq(SubSeq(s, 1, p), 1, q) = SubSeq(s, 1, q)
<1>1. PICK a \in Seq(S) : a = SubSeq(s, 1, p) /\ Len(a) = p /\ p \in Nat /\ \A i \in 1..p : a[i] = s[i]
  BY PrefixIs
<1>2. q \in 0..Len(a) /\ q \in 0..Len(s)
  BY <1>1
<1>3. PICK b \in Seq(S) : b = SubSeq(a, 1, q) /\ Len(b) = q /\ q \in Nat /\ \A i \in 1..q : b[i] = a[i]
  <2>1. /\ SubSeq(a, 1, q) \in Seq(S) /\ Len(SubSeq(a, 1, q)) = q /\ q \in Nat
        /\ \A i \in 1..q : SubSeq(a, 1, q)[i] = a[i]
    BY <1>2, PrefixIs
  <2> QED BY <2>1
<1>4. PICK c \in Seq(S) : c = SubSeq(s, 1, q) /\ Len(c) = q /\ \A i \in 1..q : c[i] = s[i]
  <2>1. /\ SubSeq(s, 1, q) \in Seq(S) /\ Len(SubSeq(s, 1, q)) = q
        /\ \A i \in 1..q : SubSeq(s, 1, q)[i] = s[i]
    BY <1>2, PrefixIs
  <2> QED BY <2>1
<1>5. \A i \in 1..q : b[i] = c[i]
  <2>1. \A i \in 1..q : i \in 1..p
    BY <1>1, <1>3
  <2> QED BY <1>1, <1>3, <1>4, <2>1
<1>6. b = c
  BY <1>3, <1>4, <1>5
<1> QED BY <1>1, <1>3, <1>4, <1>6

\* y is x cut back to its p-th savepoint, whose mark is the at-th.
BackTo(y, x, p, at) ==
    /\ y \in TxnType
    /\ y.writes = SubSeq(x.writes, 1, x.saves[p].len)
    /\ y.saves = SubSeq(x.saves, 1, p)
    /\ y.queue.marks = SubSeq(x.queue.marks, 1, at)
    /\ y.queue.entries = SubSeq(x.queue.entries, 1, LenAt(x.queue.marks, x.saves[p].name))
    /\ ~y.queue.on => y.queue = NoQueue

LEMMA BackToIs ==
    ASSUME NEW x, Sound(x), NEW n, HasSave(x, n)
    PROVE  /\ BackTo(RolledBackTo(x, n), x, Saved(x, n), Marked(x, n))
           /\ Marked(x, n) = LastNamed(x.queue.marks, n)
           /\ Marked(x, n) \in 0..Len(x.queue.marks)
<1>0. x \in TxnType /\ Climb(x.queue.marks, Len(x.queue.entries)) /\ (~x.queue.on => x.queue = NoQueue)
  BY DEF Sound
<1>1. PICK p \in 1..Len(x.saves) : p = Saved(x, n) /\ x.saves[p].name = n
  BY <1>0, SavedIs
<1>2. PICK e \in Nat, es \in Seq(Entry), mk \in Seq(MarkType) :
          e = Len(es) /\ es = x.queue.entries /\ mk = x.queue.marks /\ Climb(mk, e)
  BY <1>0, TxnFields
<1>3. PICK at : /\ at = Marked(x, n) /\ at = LastNamed(mk, n) /\ at \in 0..Len(mk)
                /\ LenAt(mk, n) \in 0..e
                /\ at # 0 => at \in DOMAIN mk /\ LenAt(mk, n) = mk[at].len
  BY <1>2, LenAtIs DEF Marked
<1>4. PICK w \in Seq(Row \cup {Notified}), sv \in Seq(SaveType) :
          w = SubSeq(x.writes, 1, x.saves[p].len) /\ sv = SubSeq(x.saves, 1, p)
  <2>1. x.saves[p].len <= Len(x.writes)
    BY DEF Sound
  <2>2. x.saves[p].len \in Nat
    BY <1>0, TxnFields, SaveFields
  <2>3. x.saves[p].len \in 0..Len(x.writes)
    BY <1>0, <2>1, <2>2, TxnFields
  <2>4. p \in 0..Len(x.saves)
    BY <1>0, TxnFields
  <2>5. SubSeq(x.writes, 1, x.saves[p].len) \in Seq(Row \cup {Notified})
    BY <1>0, <2>3, TxnFields, PrefixIs
  <2>6. SubSeq(x.saves, 1, p) \in Seq(SaveType)
    BY <1>0, <2>4, TxnFields, PrefixIs
  <2> QED BY <2>5, <2>6
<1>5. PICK q \in QueueType : /\ q = TrimmedTo(x, n) /\ q.marks = SubSeq(mk, 1, at)
                             /\ q.entries = SubSeq(es, 1, LenAt(mk, n))
                             /\ ~q.on => q = NoQueue
  <2>1. CASE at = 0
    <3>1. TrimmedTo(x, n) = NoQueue
      BY <1>3, <2>1 DEF TrimmedTo
    <3>2. LenAt(mk, n) = 0
      BY <1>3, <2>1 DEF LenAt
    <3>3. SubSeq(mk, 1, 0) = <<>> /\ SubSeq(es, 1, 0) = <<>>
      OBVIOUS
    <3> QED BY <2>1, <3>1, <3>2, <3>3, NoQueueIs
  <2>2. CASE at # 0
    <3>1. TrimmedTo(x, n) = [x.queue EXCEPT !.marks = SubSeq(@, 1, at), !.entries = SubSeq(@, 1, mk[at].len),
                                            !.mode = mk[at].mode]
      BY <1>2, <1>3, <2>2 DEF TrimmedTo
    <3>2. mk[at].mode \in ModeType
      <4>1. at \in 1..Len(mk)
        BY <1>3, <2>2
      <4> QED BY <4>1, MarkFields
    <3>3. SubSeq(mk, 1, at) \in Seq(MarkType)
      BY <1>3, PrefixIs
    <3>4. SubSeq(es, 1, mk[at].len) \in Seq(Entry)
      BY <1>2, <1>3, <2>2, PrefixIs
    <3>5. x.queue.on
      <4>1. mk # <<>>
        BY <1>3, <2>2
      <4> QED BY <1>0, <1>2, <4>1, NoQueueIs
    <3>6. PICK q : /\ q = TrimmedTo(x, n)
                   /\ q = [on |-> x.queue.on, entries |-> SubSeq(es, 1, mk[at].len),
                           marks |-> SubSeq(mk, 1, at), mode |-> mk[at].mode]
      BY <1>0, <1>2, <3>1, TxnFields DEF QueueType
    <3>7. q \in QueueType
      BY <1>0, <3>2, <3>3, <3>4, <3>6, TxnFields DEF QueueType
    <3>8. q.marks = SubSeq(mk, 1, at) /\ q.entries = SubSeq(es, 1, LenAt(mk, n)) /\ q.on
      BY <1>3, <2>2, <3>5, <3>6
    <3> QED BY <3>6, <3>7, <3>8
  <2> QED BY <2>1, <2>2
<1>6. RolledBackTo(x, n) = [writes |-> w, saves |-> sv, queue |-> q]
  BY <1>1, <1>4, <1>5 DEF RolledBackTo
<1>7. RolledBackTo(x, n) \in TxnType
  BY <1>6 DEF TxnType
<1>8. BackTo(RolledBackTo(x, n), x, p, at)
  BY <1>1, <1>2, <1>4, <1>5, <1>6, <1>7 DEF BackTo
<1> QED BY <1>1, <1>2, <1>3, <1>8

\* What is left of the savepoints before it: all of each.
KeptBefore(y, x, p) ==
    /\ Len(y.saves) = p /\ Len(y.writes) = x.saves[p].len
    /\ Len(y.queue.entries) = LenAt(x.queue.marks, x.saves[p].name)
    /\ \A i \in 1..p :
         /\ y.saves[i] = x.saves[i] /\ i \in 1..Len(x.saves)
         /\ x.saves[i].len \in 0..x.saves[p].len
         /\ LastNamed(y.queue.marks, x.saves[i].name) = LastNamed(x.queue.marks, x.saves[i].name)
         /\ LenAt(y.queue.marks, x.saves[i].name) = LenAt(x.queue.marks, x.saves[i].name)
         /\ LenAt(x.queue.marks, x.saves[i].name) <= LenAt(x.queue.marks, x.saves[p].name)
    /\ \A j \in 1..Len(y.queue.entries) : y.queue.entries[j] = x.queue.entries[j]

LEMMA BackToKeeps ==
    ASSUME NEW x, Sound(x), NEW y, NEW p \in 1..Len(x.saves),
           BackTo(y, x, p, LastNamed(x.queue.marks, x.saves[p].name))
    PROVE  KeptBefore(y, x, p)
<1>a. PICK at : at = LastNamed(x.queue.marks, x.saves[p].name) /\ BackTo(y, x, p, at)
  OBVIOUS
<1>0. x \in TxnType /\ Climb(x.queue.marks, Len(x.queue.entries))
  BY DEF Sound
<1>1. PICK e \in Nat, es \in Seq(Entry), mk \in Seq(MarkType), z \in Nat, sv \in Seq(SaveType) :
          /\ e = Len(es) /\ es = x.queue.entries /\ mk = x.queue.marks /\ Climb(mk, e)
          /\ sv = x.saves /\ z = Len(sv)
  BY <1>0, TxnFields
<1>2. p \in 0..z /\ p \in Nat /\ \A i \in 1..p : i \in 1..z /\ (i = p \/ i < p)
  BY <1>1
<1>3. /\ at \in 0..Len(mk) /\ LenAt(mk, sv[p].name) \in 0..e
      /\ \A i \in 1..p : LastNamed(mk, sv[i].name) \in 0..Len(mk)
  BY <1>a, <1>1, LenAtIs
<1>4. Len(y.saves) = p /\ \A i \in 1..p : y.saves[i] = sv[i]
  <2>1. y.saves = SubSeq(sv, 1, p)
    BY <1>a, <1>1 DEF BackTo
  <2> QED BY <1>2, <2>1, <1>1, PrefixIs
<1>5. sv[p].len \in 0..Len(x.writes)
  <2>1. sv[p].len <= Len(x.writes)
    BY <1>1 DEF Sound
  <2>2. sv[p].len \in Nat
    BY <1>1, SaveFields
  <2> QED BY <1>0, <2>1, <2>2, TxnFields
<1>6. Len(y.writes) = sv[p].len
  <2>1. y.writes = SubSeq(x.writes, 1, sv[p].len)
    BY <1>a, <1>1 DEF BackTo
  <2> QED BY <1>0, <1>5, <2>1, TxnFields, PrefixIs
<1>7. Len(y.queue.entries) = LenAt(mk, sv[p].name)
      /\ \A j \in 1..Len(y.queue.entries) : y.queue.entries[j] = es[j]
  <2>1. y.queue.entries = SubSeq(es, 1, LenAt(mk, sv[p].name))
    BY <1>a, <1>1 DEF BackTo
  <2> QED BY <1>1, <1>3, <2>1, PrefixIs
<1>8. ASSUME NEW i \in 1..p
      PROVE  /\ sv[i].len \in 0..sv[p].len
             /\ LastNamed(mk, sv[i].name) = 0 \/ LastNamed(mk, sv[i].name) <= at
             /\ LenAt(mk, sv[i].name) <= LenAt(mk, sv[p].name)
  <2>0. sv[i].len \in Nat /\ sv[p].len \in Nat
    BY <1>1, <1>2, SaveFields
  <2>1. CASE i = p
    BY <1>a, <1>1, <1>3, <2>0, <2>1
  <2>2. CASE i < p
    <3>1. InOrder(mk, sv[i], sv[p])
      BY <1>1, <1>2, <2>2 DEF Sound
    <3>2. sv[i].len <= sv[p].len
      BY <3>1 DEF InOrder
    <3>3. LastNamed(mk, sv[i].name) = 0 \/ LastNamed(mk, sv[i].name) < LastNamed(mk, sv[p].name)
      BY <3>1 DEF InOrder
    <3>4. LenAt(mk, sv[i].name) <= LenAt(mk, sv[p].name)
      BY <1>1, <3>3, LenAtClimbs
    <3>5. LastNamed(mk, sv[i].name) = 0 \/ LastNamed(mk, sv[i].name) <= at
      BY <1>a, <1>1, <1>3, <3>3
    <3> QED BY <2>0, <3>2, <3>4, <3>5
  <2> QED BY <1>2, <2>1, <2>2
<1>9. ASSUME NEW i \in 1..p
      PROVE  /\ LastNamed(y.queue.marks, sv[i].name) = LastNamed(mk, sv[i].name)
             /\ LenAt(y.queue.marks, sv[i].name) = LenAt(mk, sv[i].name)
  <2>1. y.queue.marks = SubSeq(mk, 1, at)
    BY <1>a, <1>1 DEF BackTo
  <2>2. LastNamed(mk, sv[i].name) = 0 \/ LastNamed(mk, sv[i].name) <= at
    BY <1>8
  <2> QED BY <1>3, <2>1, <2>2, MarksCut
<1> QED BY <1>1, <1>2, <1>4, <1>6, <1>7, <1>8, <1>9 DEF KeptBefore

LEMMA RolledBackSound ==
    ASSUME NEW x, Sound(x), NEW n, HasSave(x, n)
    PROVE  /\ Sound(RolledBackTo(x, n))
           /\ Len(RolledBackTo(x, n).writes) = x.saves[Saved(x, n)].len
<1>0. x \in TxnType
  BY DEF Sound
<1>p. PICK p \in 1..Len(x.saves) : p = Saved(x, n) /\ x.saves[p].name = n
  BY <1>0, SavedIs
<1>1. PICK y, at :
          /\ p = Saved(x, n) /\ y = RolledBackTo(x, n) /\ at = LastNamed(x.queue.marks, x.saves[p].name)
          /\ BackTo(y, x, p, at) /\ at \in 0..Len(x.queue.marks)
  BY <1>0, <1>p, BackToIs
<1>2. y \in TxnType /\ (~y.queue.on => y.queue = NoQueue)
  BY <1>1 DEF BackTo
<1>3. /\ Len(y.saves) = p /\ Len(y.writes) = x.saves[p].len
      /\ Len(y.queue.entries) = LenAt(x.queue.marks, x.saves[p].name)
      /\ \A i \in 1..p :
           /\ y.saves[i] = x.saves[i] /\ i \in 1..Len(x.saves)
           /\ x.saves[i].len \in 0..x.saves[p].len
           /\ LastNamed(y.queue.marks, x.saves[i].name) = LastNamed(x.queue.marks, x.saves[i].name)
           /\ LenAt(y.queue.marks, x.saves[i].name) = LenAt(x.queue.marks, x.saves[i].name)
  <2>1. KeptBefore(y, x, p)
    BY <1>1, BackToKeeps
  <2> QED BY <2>1 DEF KeptBefore
<1>4. ASSUME NEW i \in 1..p, NEW j \in 1..p, i < j
      PROVE  InOrder(y.queue.marks, y.saves[i], y.saves[j])
  <2>1. InOrder(x.queue.marks, x.saves[i], x.saves[j])
    BY <1>3, <1>4 DEF Sound
  <2> QED BY <1>3, <2>1 DEF InOrder
<1>5. ASSUME NEW i \in 1..p
      PROVE  /\ y.saves[i].len <= Len(y.writes)
             /\ y.saves[i].len = Len(y.writes) =>
                   LenAt(y.queue.marks, y.saves[i].name) = Len(y.queue.entries)
  <2>1. y.saves[i].len <= Len(y.writes)
    <3>1. x.saves[p].len \in Nat
      BY <1>0, TxnFields, SaveFields
    <3> QED BY <1>3, <3>1
  <2>2. ASSUME x.saves[i].len = x.saves[p].len
        PROVE  LenAt(x.queue.marks, x.saves[i].name) = LenAt(x.queue.marks, x.saves[p].name)
    <3>1. i = p \/ i < p
      BY <1>0, TxnFields
    <3>2. i < p => InOrder(x.queue.marks, x.saves[i], x.saves[p])
      BY <1>3 DEF Sound
    <3> QED BY <2>2, <3>1, <3>2 DEF InOrder
  <2> QED BY <1>3, <2>1, <2>2
<1>6. Climb(y.queue.marks, Len(y.queue.entries))
  <2>1. PICK e \in Nat, mk \in Seq(MarkType) : /\ e = Len(x.queue.entries) /\ mk = x.queue.marks
                                               /\ Climb(mk, e)
    BY <1>0, TxnFields DEF Sound
  <2>2. y.queue.marks = SubSeq(mk, 1, at) /\ at \in 0..Len(mk)
    BY <1>1, <2>1 DEF BackTo
  <2>3. CASE at = 0
    <3>1. y.queue.marks = <<>>
      BY <2>1, <2>2, <2>3
    <3> QED BY <3>1 DEF Climb
  <2>4. CASE at # 0
    <3>1. LenAt(mk, x.saves[p].name) = mk[at].len
      BY <1>1, <2>1, <2>4 DEF LenAt
    <3>2. Climb(SubSeq(mk, 1, at), mk[at].len)
      BY <2>1, <2>2, <2>4, ClimbCut
    <3> QED BY <1>3, <2>1, <2>2, <3>1, <3>2
  <2> QED BY <2>3, <2>4
<1>7. Sound(y)
  BY <1>2, <1>3, <1>4, <1>5, <1>6 DEF Sound
<1> QED BY <1>1, <1>3, <1>7

\* Going back to a savepoint set since the last SET CONSTRAINTS IMMEDIATE leaves
\* nothing broken that is not asked about; going further back leaves that to chance,
\* and if it is so for this savepoint it is for those set at the same write.
LEMMA RolledBackOwed ==
    ASSUME NEW x, Sound(x), NEW n, HasSave(x, n), NEW rs, NEW since, OwedAt(rs, x, since)
    PROVE  LET y == RolledBackTo(x, n)
               len == x.saves[Saved(x, n)].len
           IN  /\ OwedAt(rs, y, since)
               /\ len >= since => OwesNow(rs, y)
               /\ OwesNow(rs, y) => OwedAt(rs, y, len)
<1>0. x \in TxnType
  BY DEF Sound
<1>p. PICK p \in 1..Len(x.saves) : p = Saved(x, n) /\ x.saves[p].name = n
  BY <1>0, SavedIs
<1>1. PICK y, at :
          /\ p = Saved(x, n) /\ y = RolledBackTo(x, n) /\ at = LastNamed(x.queue.marks, x.saves[p].name)
          /\ BackTo(y, x, p, at)
  BY <1>0, <1>p, BackToIs
<1>2. PICK ws \in Seq(Row \cup {Notified}), l \in Nat, L \in Nat :
          /\ ws = x.writes /\ l = x.saves[p].len /\ y.writes = SubSeq(ws, 1, l) /\ l \in 0..Len(ws)
          /\ L = LenAt(x.queue.marks, x.saves[p].name)
  <2>1. x.saves[p].len <= Len(x.writes)
    BY DEF Sound
  <2>2. x.saves[p].len \in Nat
    BY <1>0, TxnFields, SaveFields
  <2>3. LenAt(x.queue.marks, x.saves[p].name) \in Nat
    <3>1. Climb(x.queue.marks, Len(x.queue.entries))
      BY DEF Sound
    <3> QED BY <1>0, <3>1, TxnFields, LenAtIs
  <2>4. x.writes \in Seq(Row \cup {Notified}) /\ x.saves[p].len \in 0..Len(x.writes)
    BY <1>0, <2>1, <2>2, TxnFields
  <2>5. y.writes = SubSeq(x.writes, 1, x.saves[p].len)
    BY <1>1 DEF BackTo
  <2> QED BY <2>2, <2>3, <2>4, <2>5
<1>3. /\ Len(y.saves) = p /\ Len(y.writes) = l
      /\ Len(y.queue.entries) = L
      /\ \A i \in 1..p :
           /\ y.saves[i] = x.saves[i] /\ i \in 1..Len(x.saves)
           /\ x.saves[i].len \in 0..l
           /\ LenAt(y.queue.marks, x.saves[i].name) = LenAt(x.queue.marks, x.saves[i].name)
           /\ LenAt(x.queue.marks, x.saves[i].name) <= L
      /\ \A j \in 1..L : y.queue.entries[j] = x.queue.entries[j]
  <2>1. /\ Len(y.saves) = p /\ Len(y.writes) = x.saves[p].len
        /\ Len(y.queue.entries) = LenAt(x.queue.marks, x.saves[p].name)
        /\ \A i \in 1..p :
             /\ y.saves[i] = x.saves[i] /\ i \in 1..Len(x.saves)
             /\ x.saves[i].len \in 0..x.saves[p].len
             /\ LenAt(y.queue.marks, x.saves[i].name) = LenAt(x.queue.marks, x.saves[i].name)
             /\ LenAt(x.queue.marks, x.saves[i].name) <= LenAt(x.queue.marks, x.saves[p].name)
        /\ \A j \in 1..Len(y.queue.entries) : y.queue.entries[j] = x.queue.entries[j]
    <3>1. KeptBefore(y, x, p)
      BY <1>1, BackToKeeps
    <3> QED BY <3>1 DEF KeptBefore
  <2> QED BY <1>2, <2>1
<1>4. ASSUME NEW i \in 1..p
      PROVE  /\ SubSeq(y.writes, 1, x.saves[i].len) = SubSeq(ws, 1, x.saves[i].len)
             /\ \A m \in 1..LenAt(x.queue.marks, x.saves[i].name) : m \in 1..L
  <2>1. x.saves[i].len \in 0..l /\ LenAt(x.queue.marks, x.saves[i].name) <= L
    BY <1>3
  <2>2. SubSeq(SubSeq(ws, 1, l), 1, x.saves[i].len) = SubSeq(ws, 1, x.saves[i].len)
    BY <1>2, <2>1, PrefixPrefix
  <2>3. LenAt(x.queue.marks, x.saves[i].name) \in Nat
    <3>1. Climb(x.queue.marks, Len(x.queue.entries))
      BY DEF Sound
    <3> QED BY <1>0, <3>1, TxnFields, LenAtIs
  <2>4. SubSeq(y.writes, 1, x.saves[i].len) = SubSeq(ws, 1, x.saves[i].len)
    BY <1>2, <2>2
  <2>5. \A a, b \in Nat : a <= b => \A m \in 1..a : m \in 1..b
    OBVIOUS
  <2>6. \A m \in 1..LenAt(x.queue.marks, x.saves[i].name) : m \in 1..L
    BY <2>1, <2>3, <2>5
  <2> QED BY <2>4, <2>6
<1>5. ASSUME NEW i \in 1..p, x.saves[i].len >= since
      PROVE  Covers(rs, SubSeq(y.writes, 1, x.saves[i].len), y.queue.entries,
                    LenAt(x.queue.marks, x.saves[i].name))
  <2>1. Covers(rs, SubSeq(ws, 1, x.saves[i].len), x.queue.entries, LenAt(x.queue.marks, x.saves[i].name))
    BY <1>2, <1>3, <1>5 DEF OwedAt
  <2> QED BY <1>3, <1>4, <2>1 DEF Covers
<1>6. OwedAt(rs, y, since)
  BY <1>3, <1>5 DEF OwedAt
<1>7. ASSUME l >= since PROVE OwesNow(rs, y)
  <2>1. p \in 1..p
    BY <1>0, TxnFields
  <2>2. Covers(rs, SubSeq(y.writes, 1, l), y.queue.entries, L)
    BY <1>2, <1>5, <1>7, <2>1
  <2>3. SubSeq(y.writes, 1, l) = y.writes
    <3>1. y.writes \in Seq(Row \cup {Notified})
      BY <1>1, TxnFields DEF BackTo
    <3> QED BY <1>3, <3>1
  <2> QED BY <1>3, <2>2, <2>3 DEF OwesNow
<1>8. ASSUME OwesNow(rs, y) PROVE OwedAt(rs, y, l)
  <2>1. SubSeq(y.writes, 1, l) = y.writes
    <3>1. y.writes \in Seq(Row \cup {Notified})
      BY <1>1, TxnFields DEF BackTo
    <3> QED BY <1>3, <3>1
  <2> SUFFICES ASSUME NEW i \in 1..p, x.saves[i].len >= l
               PROVE  Covers(rs, SubSeq(y.writes, 1, x.saves[i].len), y.queue.entries,
                             LenAt(x.queue.marks, x.saves[i].name))
    BY <1>3 DEF OwedAt
  <2>2. x.saves[i].len = l
    BY <1>2, <1>3
  <2>3. LenAt(x.queue.marks, x.saves[i].name) = L
    <3>1. i = p \/ i < p
      BY <1>0, TxnFields
    <3>2. i < p => InOrder(x.queue.marks, x.saves[i], x.saves[p])
      BY <1>3 DEF Sound
    <3> QED BY <1>2, <2>2, <3>1, <3>2 DEF InOrder
  <2>4. Covers(rs, y.writes, y.queue.entries, L)
    BY <1>3, <1>8 DEF OwesNow
  <2> QED BY <2>1, <2>2, <2>3, <2>4
<1> QED BY <1>1, <1>2, <1>6, <1>7, <1>8

-----------------------------------------------------------------------------
(* Releasing a savepoint                                                   *)

\* y is x without its p-th savepoint and the later ones.
Without(y, x, p) ==
    /\ y \in TxnType /\ y.writes = x.writes /\ y.saves = SubSeq(x.saves, 1, p - 1)
    /\ y.queue.entries = x.queue.entries
    /\ Climb(y.queue.marks, Len(y.queue.entries))
    /\ ~y.queue.on => y.queue = NoQueue
    /\ Len(y.saves) = p - 1
    /\ \A i \in 1..(p - 1) :
         /\ y.saves[i] = x.saves[i] /\ i \in 1..Len(x.saves)
         /\ LastNamed(y.queue.marks, x.saves[i].name) = LastNamed(x.queue.marks, x.saves[i].name)
         /\ LenAt(y.queue.marks, x.saves[i].name) = LenAt(x.queue.marks, x.saves[i].name)

LEMMA WithoutIs ==
    ASSUME NEW x, Sound(x), NEW n, HasSave(x, n)
    PROVE  Without(Released(x, n), x, Saved(x, n))
<1>0. x \in TxnType /\ Climb(x.queue.marks, Len(x.queue.entries)) /\ (~x.queue.on => x.queue = NoQueue)
  BY DEF Sound
<1>1. PICK p \in 1..Len(x.saves) : p = Saved(x, n) /\ x.saves[p].name = n
  BY <1>0, SavedIs
<1>2. PICK e \in Nat, es \in Seq(Entry), mk \in Seq(MarkType), sv \in Seq(SaveType), z \in Nat :
          /\ e = Len(es) /\ es = x.queue.entries /\ mk = x.queue.marks /\ Climb(mk, e)
          /\ sv = x.saves /\ z = Len(sv)
  BY <1>0, TxnFields
<1>3. PICK at : at = Marked(x, n) /\ at = LastNamed(mk, n) /\ at \in 0..Len(mk)
  BY <1>2, LenAtIs DEF Marked
<1>4. PICK c : c = (IF at = 0 THEN 0 ELSE at - 1) /\ c \in 0..Len(mk) /\ Len(mk) \in Nat
  BY <1>3
<1>5. p - 1 \in 0..Len(sv) /\ p \in Nat /\ p - 1 \in Nat
  BY <1>2
<1>6. PICK mk1 \in Seq(MarkType) : mk1 = SubSeq(mk, 1, c)
  BY <1>4, PrefixIs
<1>7. PICK sv1 \in Seq(SaveType) : /\ sv1 = SubSeq(sv, 1, p - 1) /\ Len(sv1) = p - 1
                                   /\ \A i \in 1..(p - 1) : sv1[i] = sv[i]
  BY <1>5, PrefixIs
<1>8. PICK y : /\ y = Released(x, n)
               /\ y = [x EXCEPT !.saves = sv1, !.queue.marks = mk1]
  BY <1>1, <1>2, <1>3, <1>4, <1>6, <1>7 DEF Released
<1>9. PICK q \in QueueType : /\ q = [x.queue EXCEPT !.marks = mk1] /\ q.entries = es /\ q.marks = mk1
                             /\ q.on = x.queue.on /\ (mk1 = mk => q = x.queue)
  <2>1. [x.queue EXCEPT !.marks = mk1] \in QueueType
    BY <1>0, TxnFields DEF QueueType
  <2>2. PICK q : q = [x.queue EXCEPT !.marks = mk1]
    OBVIOUS
  <2>3. q.entries = es /\ q.marks = mk1 /\ q.on = x.queue.on /\ (mk1 = mk => q = x.queue)
    BY <1>0, <1>2, <2>2, TxnFields DEF QueueType
  <2> QED BY <2>1, <2>2, <2>3
<1>10. y = [writes |-> x.writes, saves |-> sv1, queue |-> q]
  BY <1>0, <1>8, <1>9 DEF TxnType
<1>11. y \in TxnType
  BY <1>0, <1>10, TxnFields DEF TxnType
<1>12. y.writes = x.writes /\ y.saves = sv1 /\ y.queue = q
  BY <1>10
<1>13. Climb(mk1, e)
  BY <1>2, <1>4, <1>6, ClimbCut
<1>14. ASSUME ~x.queue.on PROVE q = NoQueue
  <2>1. mk = <<>> /\ x.queue = NoQueue
    BY <1>0, <1>2, <1>14, NoQueueIs
  <2>2. mk1 = mk
    BY <1>4, <1>6, <2>1
  <2> QED BY <1>9, <2>1, <2>2
<1>15. ASSUME NEW i \in 1..(p - 1)
       PROVE  /\ i \in 1..z
              /\ LastNamed(mk1, sv[i].name) = LastNamed(mk, sv[i].name)
              /\ LenAt(mk1, sv[i].name) = LenAt(mk, sv[i].name)
  <2>1. i \in 1..z /\ i < p
    BY <1>2, <1>5
  <2>2. InOrder(mk, sv[i], sv[p])
    BY <1>2, <2>1 DEF Sound
  <2>3. LastNamed(mk, sv[i].name) = 0 \/ LastNamed(mk, sv[i].name) < at
    BY <1>1, <1>2, <1>3, <2>2 DEF InOrder
  <2>4. LastNamed(mk, sv[i].name) \in 0..Len(mk)
    BY <1>2, LenAtIs
  <2>5. LastNamed(mk, sv[i].name) = 0 \/ LastNamed(mk, sv[i].name) <= c
    BY <1>3, <1>4, <2>3, <2>4
  <2> QED BY <1>4, <1>6, <2>1, <2>5, MarksCut
<1>16. Without(y, x, p)
  <2>1. \A i \in 1..(p - 1) :
         /\ y.saves[i] = x.saves[i] /\ i \in 1..Len(x.saves)
         /\ LastNamed(y.queue.marks, x.saves[i].name) = LastNamed(x.queue.marks, x.saves[i].name)
         /\ LenAt(y.queue.marks, x.saves[i].name) = LenAt(x.queue.marks, x.saves[i].name)
    BY <1>2, <1>7, <1>9, <1>12, <1>15
  <2>2. Climb(y.queue.marks, Len(y.queue.entries)) /\ y.queue.entries = x.queue.entries
    BY <1>2, <1>9, <1>12, <1>13
  <2>3. ~y.queue.on => y.queue = NoQueue
    BY <1>9, <1>12, <1>14
  <2>4. y.writes = x.writes /\ y.saves = SubSeq(x.saves, 1, p - 1) /\ Len(y.saves) = p - 1
    BY <1>2, <1>7, <1>12
  <2> QED BY <1>11, <2>1, <2>2, <2>3, <2>4 DEF Without
<1> QED BY <1>1, <1>8, <1>16

LEMMA ReleasedSound ==
    ASSUME NEW x, Sound(x), NEW n, HasSave(x, n)
    PROVE  Sound(Released(x, n))
<1>1. PICK y, p : y = Released(x, n) /\ p = Saved(x, n) /\ Without(y, x, p)
  BY WithoutIs
<1>2. /\ y \in TxnType /\ y.writes = x.writes
      /\ y.queue.entries = x.queue.entries
      /\ Climb(y.queue.marks, Len(y.queue.entries))
      /\ ~y.queue.on => y.queue = NoQueue
      /\ Len(y.saves) = p - 1
      /\ \A i \in 1..(p - 1) :
           /\ y.saves[i] = x.saves[i] /\ i \in 1..Len(x.saves)
           /\ LastNamed(y.queue.marks, x.saves[i].name) = LastNamed(x.queue.marks, x.saves[i].name)
           /\ LenAt(y.queue.marks, x.saves[i].name) = LenAt(x.queue.marks, x.saves[i].name)
  BY <1>1 DEF Without
<1>3. ASSUME NEW i \in 1..(p - 1)
      PROVE  /\ y.saves[i].len <= Len(y.writes)
             /\ y.saves[i].len = Len(y.writes) =>
                   LenAt(y.queue.marks, y.saves[i].name) = Len(y.queue.entries)
  BY <1>2 DEF Sound
<1>4. ASSUME NEW i \in 1..(p - 1), NEW j \in 1..(p - 1), i < j
      PROVE  InOrder(y.queue.marks, y.saves[i], y.saves[j])
  <2>1. InOrder(x.queue.marks, x.saves[i], x.saves[j])
    BY <1>2, <1>4 DEF Sound
  <2> QED BY <1>2, <2>1 DEF InOrder
<1>5. Sound(y)
  BY <1>2, <1>3, <1>4 DEF Sound
<1> QED BY <1>1, <1>5

LEMMA ReleasedOwed ==
    ASSUME NEW x, Sound(x), NEW n, HasSave(x, n), NEW rs, NEW since
    PROVE  /\ OwedAt(rs, x, since) => OwedAt(rs, Released(x, n), since)
           /\ OwesNow(rs, x) => OwesNow(rs, Released(x, n))
<1>1. PICK y, p : y = Released(x, n) /\ p = Saved(x, n) /\ Without(y, x, p)
  BY WithoutIs
<1>2. /\ y.writes = x.writes /\ y.queue.entries = x.queue.entries /\ Len(y.saves) = p - 1
      /\ \A i \in 1..(p - 1) :
           /\ y.saves[i] = x.saves[i] /\ i \in 1..Len(x.saves)
           /\ LenAt(y.queue.marks, x.saves[i].name) = LenAt(x.queue.marks, x.saves[i].name)
  BY <1>1 DEF Without
<1>3. OwesNow(rs, x) => OwesNow(rs, y)
  BY <1>2 DEF OwesNow
<1>4. OwedAt(rs, x, since) => OwedAt(rs, y, since)
  BY <1>2 DEF OwedAt
<1> QED BY <1>1, <1>3, <1>4

-----------------------------------------------------------------------------
(* Queueing, collapsing and dropping entries                               *)

\* q1 is q with other entries: a mark that was at l is at g[l].
Moved(q1, q, g) ==
    /\ q \in QueueType /\ q1 \in QueueType /\ Climb(q.marks, Len(q.entries))
    /\ g \in [0..Len(q.entries) -> 0..Len(q1.entries)] /\ g[0] = 0
    /\ \A k, l \in 0..Len(q.entries) : k <= l => g[k] <= g[l]
    /\ Len(q1.marks) = Len(q.marks)
    /\ \A i \in 1..Len(q.marks) :
          q1.marks[i].name = q.marks[i].name /\ q1.marks[i].len = g[q.marks[i].len]

\* Whatever was asked before a mark still is.
Carries(q1, q, g) ==
    \A l \in 0..Len(q.entries) : \A j \in 1..l : \A ck \in Con \X Key :
        Asks(q.entries[j], ck) => \E i \in 1..g[l] : Asks(q1.entries[i], ck)

LEMMA QueueFields ==
    ASSUME NEW q \in QueueType
    PROVE  /\ q.on \in BOOLEAN /\ q.entries \in Seq(Entry) /\ q.marks \in Seq(MarkType)
           /\ q.mode \in ModeType /\ Len(q.entries) \in Nat /\ Len(q.marks) \in Nat
           /\ DOMAIN q.marks = 1..Len(q.marks) /\ DOMAIN q.entries = 1..Len(q.entries)
<1>1. /\ q.on \in BOOLEAN /\ q.entries \in Seq(Entry) /\ q.marks \in Seq(MarkType) /\ q.mode \in ModeType
  BY DEF QueueType
<1> QED BY <1>1

LEMMA MovedIs ==
    ASSUME NEW q1, NEW q, NEW g, Moved(q1, q, g)
    PROVE  /\ Climb(q1.marks, Len(q1.entries))
           /\ \A n : /\ LastNamed(q1.marks, n) = LastNamed(q.marks, n)
                     /\ LenAt(q.marks, n) \in 0..Len(q.entries)
                     /\ LenAt(q1.marks, n) = g[LenAt(q.marks, n)]
<1>1. PICK z \in Nat, e \in Nat, e1 \in Nat, mk \in Seq(MarkType), mk1 \in Seq(MarkType) :
          /\ mk = q.marks /\ mk1 = q1.marks /\ z = Len(mk) /\ z = Len(mk1)
          /\ e = Len(q.entries) /\ e1 = Len(q1.entries)
  BY QueueFields DEF Moved
<1>2. /\ g \in [0..e -> 0..e1] /\ g[0] = 0 /\ Climb(mk, e)
      /\ \A k, l \in 0..e : k <= l => g[k] <= g[l]
      /\ \A i \in 1..z : mk1[i].name = mk[i].name /\ mk1[i].len = g[mk[i].len]
  BY <1>1 DEF Moved
<1>3. DOMAIN mk = 1..z /\ DOMAIN mk1 = 1..z
  <2>1. \A m \in Seq(MarkType) : DOMAIN m = 1..Len(m)
    OBVIOUS
  <2> QED BY <1>1, <2>1
<1>4. /\ \A i \in 1..z : mk[i].len \in 0..e
      /\ \A i, j \in 1..z : i < j => mk[i].len <= mk[j].len
  BY <1>2, <1>3 DEF Climb
<1>5. Climb(mk1, e1)
  <2>1. \A i \in 1..z : g[mk[i].len] \in 0..e1
    BY <1>2, <1>4
  <2>2. \A i, j \in 1..z : i < j => g[mk[i].len] <= g[mk[j].len]
    BY <1>2, <1>4
  <2> QED BY <1>2, <1>3, <2>1, <2>2 DEF Climb
<1>6. ASSUME NEW n
      PROVE  /\ LastNamed(mk1, n) = LastNamed(mk, n)
             /\ LenAt(mk, n) \in 0..e /\ LenAt(mk1, n) = g[LenAt(mk, n)]
  <2>1. LastNamed(mk1, n) = LastNamed(mk, n)
    BY <1>1, <1>2, LastOfSame
  <2>2. LenAt(mk, n) \in 0..e /\ LastNamed(mk, n) \in 0..z
    BY <1>1, <1>2, LenAtIs
  <2>3. CASE LastNamed(mk, n) = 0
    BY <1>2, <2>1, <2>2, <2>3 DEF LenAt
  <2>4. CASE LastNamed(mk, n) # 0
    <3>1. LastNamed(mk, n) \in 1..z
      BY <2>2, <2>4
    <3> QED BY <1>2, <2>1, <2>2, <2>4, <3>1 DEF LenAt
  <2> QED BY <2>3, <2>4
<1> QED BY <1>1, <1>5, <1>6

LEMMA CarriesCovers ==
    ASSUME NEW q1, NEW q, NEW g, Carries(q1, q, g), NEW l \in 0..Len(q.entries), NEW rs, NEW ws,
           Covers(rs, ws, q.entries, l)
    PROVE  Covers(rs, ws, q1.entries, g[l])
<1> SUFFICES ASSUME NEW ck \in Broken(rs, ws) PROVE \E i \in 1..g[l] : Asks(q1.entries[i], ck)
  BY DEF Covers
<1>1. ck \in Con \X Key
  BY DEF Broken
<1>2. PICK j \in 1..l : Asks(q.entries[j], ck)
  BY DEF Covers
<1> QED BY <1>1, <1>2 DEF Carries

LEMMA RankAdd ==
    ASSUME NEW n \in Nat, NEW at \in SUBSET (1..n), NEW f \in 1..n, f \notin at, NEW l \in Nat
    PROVE  Rank(at \cup {f}, l) = Rank(at, l) + (IF f <= l THEN 1 ELSE 0)
<1> DEFINE U == {i \in at : i <= l}
<1>1. IsFiniteSet(U)
  <2>1. IsFiniteSet(1..n)
    BY FS_Interval
  <2>2. U \in SUBSET (1..n)
    OBVIOUS
  <2> HIDE DEF U
  <2> QED BY <2>1, <2>2, FS_Subset
<1>2. Cardinality(U) \in Nat
  BY <1>1, FS_CardinalityType
<1>3. CASE f <= l
  <2>1. {i \in at \cup {f} : i <= l} = U \cup {f} /\ f \notin U
    BY <1>3
  <2> HIDE DEF U
  <2>2. Cardinality(U \cup {f}) = Cardinality(U) + 1
    BY <1>1, <2>1, FS_AddElement
  <2> QED BY <1>3, <2>1, <2>2 DEF Rank, U
<1>4. CASE ~(f <= l)
  <2>1. {i \in at \cup {f} : i <= l} = U
    BY <1>4
  <2> QED BY <1>2, <1>4, <2>1 DEF Rank
<1> QED BY <1>3, <1>4

LEMMA RankNone ==
    ASSUME NEW n \in Nat, NEW at \in SUBSET (1..n)
    PROVE  Rank(at, 0) = 0
<1>1. {i \in at : i <= 0} = {}
  <2>1. \A i \in at : i \in 1..n
    OBVIOUS
  <2>2. \A i \in at : ~(i <= 0)
    BY <2>1
  <2> QED BY <2>2
<1> QED BY <1>1, FS_EmptySet DEF Rank

LEMMA FirstIs ==
    ASSUME NEW es \in Seq(Entry), NEW c, NEW j \in 1..Len(es), es[j].con = c
    PROVE  /\ First(es, c) \in 1..Len(es) /\ es[First(es, c)].con = c
           /\ \A i \in 1..Len(es) : es[i].con = c => First(es, c) <= i
<1> DEFINE at == {i \in 1..Len(es) : es[i].con = c}
<1>1. at \in SUBSET Nat /\ at # {}
  OBVIOUS
<1>2. PICK f \in at : \A i \in at : f <= i
  <2> HIDE DEF at
  <2> QED BY <1>1, HasLeast
<1>3. Len(es) \in Nat
  OBVIOUS
<1>4. \A i \in 1..(f - 1) : es[i].con # c
  <2> SUFFICES ASSUME NEW i \in 1..(f - 1), es[i].con = c PROVE FALSE
    OBVIOUS
  <2>1. f \in Nat /\ f \in 1..Len(es)
    OBVIOUS
  <2>2. i \in 1..Len(es) /\ i < f /\ i \in Nat
    BY <1>3, <2>1
  <2>3. i \in at
    BY <2>2
  <2> QED BY <1>2, <2>1, <2>2, <2>3
<1>5. \E i \in 1..Len(es) : es[i].con = c /\ \A k \in 1..(i - 1) : es[k].con # c
  BY <1>4
<1>6. /\ First(es, c) \in 1..Len(es) /\ es[First(es, c)].con = c
      /\ \A k \in 1..(First(es, c) - 1) : es[k].con # c
  BY <1>5 DEF First
<1> HIDE DEF at
<1>7. ASSUME NEW i \in 1..Len(es), es[i].con = c, ~(First(es, c) <= i) PROVE FALSE
  <2>1. PICK h \in Nat : h = First(es, c) /\ h \in 1..Len(es)
    BY <1>6
  <2>2. i \in 1..(h - 1)
    BY <1>3, <1>7, <2>1
  <2> QED BY <1>6, <1>7, <2>1, <2>2
<1> QED BY <1>6, <1>7

\* collapse: the entries of c become one, where the first of them was.
LEMMA CollapseMoved ==
    ASSUME NEW q \in QueueType, Climb(q.marks, Len(q.entries)), NEW c \in Con,
           NEW a \in 1..Len(q.entries), q.entries[a].con = c
    PROVE  \E g : /\ Moved(Collapse(q, c), q, g) /\ Carries(Collapse(q, c), q, g)
                  /\ Collapse(q, c).on = q.on
                  /\ \E j \in 1..Len(Collapse(q, c).entries) : Collapse(q, c).entries[j] = Of(c)
<1>1. PICK es \in Seq(Entry), e \in Nat, mk \in Seq(MarkType), z \in Nat :
          /\ es = q.entries /\ e = Len(es) /\ mk = q.marks /\ z = Len(mk) /\ DOMAIN mk = 1..z
          /\ Climb(mk, e) /\ DOMAIN es = 1..e
  BY QueueFields
<1>2. PICK f \in 1..e : f = First(es, c) /\ es[f].con = c /\ \A i \in 1..e : es[i].con = c => f <= i
  <2>1. a \in 1..Len(es) /\ es[a].con = c
    BY <1>1
  <2>2. /\ First(es, c) \in 1..Len(es) /\ es[First(es, c)].con = c
        /\ \A i \in 1..Len(es) : es[i].con = c => First(es, c) <= i
    BY <2>1, FirstIs
  <2> QED BY <1>1, <2>2
<1>3. PICK out : out = Outside(es, {c}) /\ out \in SUBSET (1..e) /\ f \notin out
                 /\ \A i \in 1..e : i \in out <=> es[i].con # c
  <2>1. \A i : i \in Outside(es, {c}) <=> i \in 1..e /\ es[i].con # c
    BY <1>1 DEF Outside
  <2>2. Outside(es, {c}) \in SUBSET (1..e)
    BY <2>1
  <2> QED BY <1>2, <2>1, <2>2
<1>4. PICK at : at = out \cup {f} /\ at \in SUBSET (1..e)
  <2>1. out \cup {f} \in SUBSET (1..e)
    BY <1>3
  <2> QED BY <2>1
<1>5. \A l \in Nat : CollapsedLen(es, c, l) = Rank(at, l)
  <2> SUFFICES ASSUME NEW l \in Nat PROVE CollapsedLen(es, c, l) = Rank(at, l)
    OBVIOUS
  <2>1. Rank(out \cup {f}, l) = Rank(out, l) + (IF f <= l THEN 1 ELSE 0)
    BY <1>3, RankAdd
  <2> QED BY <1>2, <1>3, <1>4, <2>1 DEF CollapsedLen
<1>6. PICK fs \in Seq(Entry) : fs = [es EXCEPT ![f] = Of(c)] /\ Len(fs) = e /\ fs[f] = Of(c)
                               /\ \A i \in 1..e : i # f => fs[i] = es[i]
  <2>1. Of(c) \in Entry
    BY DEF Of, Entry
  <2>2. [es EXCEPT ![f] = Of(c)] \in Seq(Entry) /\ Len([es EXCEPT ![f] = Of(c)]) = e
    BY <1>1, <2>1
  <2> QED BY <1>1, <2>2
<1>7. PICK p \in Seq(Entry) : p = Pick(fs, at) /\ Picks(p, fs, at)
  BY <1>4, <1>6, PickIs
<1>8. PICK h \in Nat : h = Cardinality(at) /\ h = Len(p)
  <2>1. Cardinality(at) \in Nat
    BY <1>4, NthIs
  <2> QED BY <1>7, <2>1 DEF Picks
<1>9. /\ \A l \in Nat : Rank(at, l) \in 0..h
      /\ \A l, m \in Nat : l <= m => Rank(at, l) <= Rank(at, m)
      /\ Rank(at, 0) = 0
  BY <1>4, <1>8, RankIs, RankNone
<1>10. PICK g : g = [l \in 0..e |-> Rank(at, l)]
  OBVIOUS
<1>11. /\ g \in [0..e -> 0..h] /\ g[0] = 0 /\ \A k, l \in 0..e : k <= l => g[k] <= g[l]
  <2>1. \A l \in 0..e : l \in Nat /\ g[l] = Rank(at, l) /\ g[l] \in 0..h
    <3>1. \A l \in 0..e : l \in Nat
      OBVIOUS
    <3>2. \A l \in 0..e : g[l] = Rank(at, l)
      BY <1>10
    <3> QED BY <1>9, <3>1, <3>2
  <2>2. 0 \in 0..e
    OBVIOUS
  <2> QED BY <1>9, <1>10, <2>1, <2>2
<1>12. PICK mk1 : mk1 = [i \in 1..z |-> [mk[i] EXCEPT !.len = CollapsedLen(es, c, mk[i].len)]]
  OBVIOUS
<1>13. \A i \in 1..z : mk[i].len \in 0..e /\ mk[i] \in MarkType
  <2>1. DOMAIN mk = 1..z
    BY <1>1
  <2>2. \A i \in DOMAIN mk : mk[i].len \in 0..e
    BY <1>1 DEF Climb
  <2>3. \A i \in 1..z : mk[i] \in MarkType
    BY <1>1
  <2> QED BY <2>1, <2>2, <2>3
<1>14. ASSUME NEW i \in 1..z
       PROVE  /\ mk1[i] \in MarkType /\ mk1[i].name = mk[i].name /\ mk1[i].len = g[mk[i].len]
  <2>0. PICK l \in 0..e : l = mk[i].len /\ l \in Nat
    BY <1>13
  <2>1. mk1[i] = [mk[i] EXCEPT !.len = Rank(at, l)]
    <3>1. CollapsedLen(es, c, l) = Rank(at, l)
      BY <1>5, <2>0
    <3>2. mk1[i] = [mk[i] EXCEPT !.len = CollapsedLen(es, c, mk[i].len)]
      BY <1>12
    <3> QED BY <2>0, <3>1, <3>2
  <2>2. Rank(at, l) \in Nat /\ Rank(at, l) = g[l]
    <3>1. Rank(at, l) \in 0..h
      BY <1>9, <2>0
    <3> QED BY <1>10, <3>1
  <2> QED BY <1>13, <2>0, <2>1, <2>2 DEF MarkType
<1>15. mk1 \in Seq(MarkType) /\ Len(mk1) = z
  <2>1. mk1 \in [1..z -> MarkType]
    BY <1>12, <1>14
  <2> QED BY <2>1
<1>16. PICK q1 : q1 = Collapse(q, c) /\ q1 = [q EXCEPT !.entries = p, !.marks = mk1]
  BY <1>1, <1>2, <1>3, <1>4, <1>6, <1>7, <1>12 DEF Collapse
<1>17. q1 = [on |-> q.on, entries |-> p, marks |-> mk1, mode |-> q.mode]
  BY <1>16 DEF QueueType
<1>18. q1 \in QueueType /\ q1.entries = p /\ q1.marks = mk1 /\ q1.on = q.on
  BY <1>15, <1>17, QueueFields DEF QueueType
<1>19. Moved(q1, q, g)
  BY <1>1, <1>8, <1>11, <1>14, <1>15, <1>18 DEF Moved
<1>20. ASSUME NEW j \in at PROVE Rank(at, j) \in 1..h /\ p[Rank(at, j)] = fs[j]
  BY <1>7, <1>8 DEF Picks
<1>21. Carries(q1, q, g)
  <2> SUFFICES ASSUME NEW l \in 0..e, NEW j \in 1..l, NEW ck \in Con \X Key, Asks(es[j], ck)
               PROVE  \E i \in 1..g[l] : Asks(p[i], ck)
    BY <1>1, <1>18 DEF Carries
  <2>0. l \in Nat /\ j \in Nat /\ j <= l /\ j \in 1..e /\ g[l] = Rank(at, l) /\ g[l] \in Nat
    BY <1>10, <1>11
  <2>1. CASE es[j].con # c
    <3>1. j \in at /\ fs[j] = es[j]
      BY <1>2, <1>3, <1>4, <1>6, <2>0, <2>1
    <3>2. Rank(at, j) \in 1..h /\ p[Rank(at, j)] = es[j]
      BY <1>20, <3>1
    <3>3. Rank(at, j) <= g[l]
      BY <1>9, <2>0
    <3>4. Rank(at, j) \in 1..g[l]
      BY <2>0, <3>2, <3>3
    <3> QED BY <3>2, <3>4
  <2>2. CASE es[j].con = c
    <3>1. f \in at /\ f \in Nat /\ f <= j
      BY <1>2, <1>4, <2>0, <2>2
    <3>2. Rank(at, f) \in 1..h /\ p[Rank(at, f)] = Of(c)
      BY <1>6, <1>20, <3>1
    <3>3. f <= l
      BY <2>0, <3>1
    <3>4. Rank(at, f) <= g[l]
      BY <1>9, <2>0, <3>1, <3>3
    <3>5. Rank(at, f) \in 1..g[l]
      BY <2>0, <3>2, <3>4
    <3>6. Asks(Of(c), ck)
      BY <2>2 DEF Asks, Of
    <3> QED BY <3>2, <3>5, <3>6
  <2> QED BY <2>1, <2>2
<1>22. \E j \in 1..Len(q1.entries) : q1.entries[j] = Of(c)
  <2>1. f \in at
    BY <1>4
  <2>2. Rank(at, f) \in 1..h /\ p[Rank(at, f)] = Of(c)
    BY <1>6, <1>20, <2>1
  <2> QED BY <1>8, <1>18, <2>2
<1> QED BY <1>16, <1>18, <1>19, <1>21, <1>22

\* push: the key is asked about, one way or the other.
Queued(q1, q, c, k) ==
    /\ \E g : Moved(q1, q, g) /\ Carries(q1, q, g)
    /\ ~q1.on => q1 = NoQueue
    /\ \E j \in 1..Len(q1.entries) : Asks(q1.entries[j], <<c, k>>)

LEMMA QueuedIs ==
    ASSUME NEW q \in QueueType, Climb(q.marks, Len(q.entries)), ~q.on => q = NoQueue,
           NEW c \in Con, NEW k \in Key
    PROVE  Queued(Push(q, c, k), q, c, k)
<1>1. PICK es \in Seq(Entry), e \in Nat, mk \in Seq(MarkType), z \in Nat :
          /\ es = q.entries /\ e = Len(es) /\ mk = q.marks /\ z = Len(mk) /\ DOMAIN mk = 1..z
          /\ Climb(mk, e) /\ DOMAIN es = 1..e
  BY QueueFields
<1>2. \A i \in 1..z : mk[i].len \in 0..e
  BY <1>1 DEF Climb
<1>3. PICK g : g = [l \in 0..e |-> l]
  OBVIOUS
<1>4. g \in [0..e -> 0..e] /\ g \in [0..e -> 0..(e + 1)] /\ g[0] = 0 /\ \A l \in 0..e : g[l] = l
  BY <1>3
<1>5. CASE IsWhole(es, c)
  <2>1. Push(q, c, k) = q
    BY <1>1, <1>5 DEF Push
  <2>2. Moved(q, q, g)
    BY <1>1, <1>2, <1>4 DEF Moved
  <2>3. Carries(q, q, g)
    BY <1>1, <1>4 DEF Carries
  <2>4. PICK j \in 1..e : es[j] = Of(c)
    BY <1>1, <1>5 DEF IsWhole, Range
  <2>5. Asks(Of(c), <<c, k>>)
    BY DEF Asks, Of
  <2> QED BY <1>1, <2>1, <2>2, <2>3, <2>4, <2>5 DEF Queued
<1>6. CASE ~IsWhole(es, c) /\ Cardinality(KeysOf(es, c)) >= WholeAfter
  <2>1. Push(q, c, k) = Collapse(q, c)
    BY <1>1, <1>6 DEF Push
  <2>2. PICK a \in 1..e : es[a].con = c
    <3>1. KeysOf(es, c) # {}
      <4>1. WholeAfter \in Nat /\ WholeAfter # 0 /\ Cardinality({}) = 0
        BY FS_EmptySet, DeferredAssumption
      <4>2. ~(0 >= WholeAfter)
        BY <4>1
      <4> QED BY <1>6, <4>1, <4>2
    <3> QED BY <1>1, <3>1 DEF KeysOf
  <2>3. PICK g1 : /\ Moved(Collapse(q, c), q, g1) /\ Carries(Collapse(q, c), q, g1)
                  /\ Collapse(q, c).on = q.on
                  /\ \E j \in 1..Len(Collapse(q, c).entries) : Collapse(q, c).entries[j] = Of(c)
    BY <1>1, <2>2, CollapseMoved
  <2>4. q.on
    <3>1. es # <<>>
      BY <1>1, <2>2
    <3> QED BY <1>1, <3>1, NoQueueIs
  <2>5. Asks(Of(c), <<c, k>>)
    BY DEF Asks, Of
  <2> QED BY <2>1, <2>3, <2>4, <2>5 DEF Queued
<1>7. CASE ~IsWhole(es, c) /\ ~(Cardinality(KeysOf(es, c)) >= WholeAfter)
  <2>1. PICK en : en = [con |-> c, key |-> k] /\ en \in Entry /\ Asks(en, <<c, k>>)
    <3>1. PICK en : en = [con |-> c, key |-> k]
      OBVIOUS
    <3>2. en \in Entry
      BY <3>1 DEF Entry
    <3>3. en.con = c /\ en.key = k
      BY <3>1
    <3>4. Asks(en, <<c, k>>)
      BY <3>3 DEF Asks
    <3> QED BY <3>1, <3>2, <3>4
  <2>2. PICK q1 : q1 = Push(q, c, k) /\ q1 = [q EXCEPT !.on = TRUE, !.entries = Append(es, en)]
    BY <1>1, <1>7, <2>1 DEF Push
  <2>3. PICK fs \in Seq(Entry) : /\ fs = Append(es, en) /\ Len(fs) = e + 1 /\ fs[e + 1] = en
                                 /\ \A i \in 1..e : fs[i] = es[i]
    <3>1. /\ Append(es, en) \in Seq(Entry) /\ Len(Append(es, en)) = Len(es) + 1
          /\ Append(es, en)[Len(es) + 1] = en /\ \A i \in 1..Len(es) : Append(es, en)[i] = es[i]
      BY <2>1, AppendIs
    <3> QED BY <1>1, <3>1
  <2>4. q1 = [on |-> TRUE, entries |-> fs, marks |-> mk, mode |-> q.mode]
    BY <1>1, <2>2, <2>3 DEF QueueType
  <2>5. q1 \in QueueType /\ q1.entries = fs /\ q1.marks = mk /\ q1.on
    BY <2>4, QueueFields DEF QueueType
  <2>6. Moved(q1, q, g)
    BY <1>1, <1>2, <1>4, <2>3, <2>5 DEF Moved
  <2>7. Carries(q1, q, g)
    <3>1. \A l \in 0..e : \A j \in 1..l : j \in 1..e
      OBVIOUS
    <3> QED BY <1>1, <1>4, <2>3, <2>5, <3>1 DEF Carries
  <2>8. e + 1 \in 1..Len(q1.entries) /\ q1.entries[e + 1] = en
    BY <2>3, <2>5
  <2> QED BY <2>1, <2>2, <2>5, <2>6, <2>7, <2>8 DEF Queued
<1> QED BY <1>5, <1>6, <1>7

\* retain: the entries of C are dropped, and every mark with those before it.
Dropped(q1, q, C, g) ==
    /\ Moved(q1, q, g) /\ q1.on = q.on /\ g[Len(q.entries)] = Len(q1.entries)
    /\ \A l \in 0..Len(q.entries) : \A j \in 1..l : q.entries[j].con \notin C =>
          \E i \in 1..g[l] : q1.entries[i] = q.entries[j]

LEMMA DroppedIs ==
    ASSUME NEW q \in QueueType, Climb(q.marks, Len(q.entries)), NEW C
    PROVE  \E g : Dropped(Retain(q, C), q, C, g)
<1>1. PICK es \in Seq(Entry), e \in Nat, mk \in Seq(MarkType), z \in Nat :
          /\ es = q.entries /\ e = Len(es) /\ mk = q.marks /\ z = Len(mk) /\ DOMAIN mk = 1..z
          /\ Climb(mk, e) /\ DOMAIN es = 1..e
  BY QueueFields
<1>3. PICK at : /\ at = Outside(es, C) /\ at \in SUBSET (1..e)
                /\ \A i \in 1..e : i \in at <=> es[i].con \notin C
  <2>1. \A i : i \in Outside(es, C) <=> i \in 1..e /\ es[i].con \notin C
    BY <1>1 DEF Outside
  <2>2. Outside(es, C) \in SUBSET (1..e)
    BY <2>1
  <2> QED BY <2>1, <2>2
<1>7. PICK p \in Seq(Entry) : p = Pick(es, at) /\ Picks(p, es, at)
  BY <1>1, <1>3, PickIs
<1>8. PICK h \in Nat : h = Cardinality(at) /\ h = Len(p)
  <2>1. Cardinality(at) \in Nat
    BY <1>3, NthIs
  <2> QED BY <1>7, <2>1 DEF Picks
<1>9. /\ \A l \in Nat : Rank(at, l) \in 0..h
      /\ \A l, m \in Nat : l <= m => Rank(at, l) <= Rank(at, m)
      /\ Rank(at, 0) = 0 /\ Rank(at, e) = h
  BY <1>3, <1>8, RankIs, RankNone
<1>10. PICK g : g = [l \in 0..e |-> Rank(at, l)]
  OBVIOUS
<1>11. /\ g \in [0..e -> 0..h] /\ g[0] = 0 /\ g[e] = h
       /\ \A k, l \in 0..e : k <= l => g[k] <= g[l]
  <2>1. \A l \in 0..e : l \in Nat /\ g[l] = Rank(at, l) /\ g[l] \in 0..h
    <3>1. \A l \in 0..e : l \in Nat
      OBVIOUS
    <3>2. \A l \in 0..e : g[l] = Rank(at, l)
      BY <1>10
    <3> QED BY <1>9, <3>1, <3>2
  <2>2. 0 \in 0..e /\ e \in 0..e
    OBVIOUS
  <2> QED BY <1>9, <1>10, <2>1, <2>2
<1>12. PICK mk1 : mk1 = [i \in 1..z |-> [mk[i] EXCEPT !.len = Rank(at, mk[i].len)]]
  OBVIOUS
<1>13. \A i \in 1..z : mk[i].len \in 0..e /\ mk[i] \in MarkType
  BY <1>1 DEF Climb
<1>14. ASSUME NEW i \in 1..z
       PROVE  /\ mk1[i] \in MarkType /\ mk1[i].name = mk[i].name /\ mk1[i].len = g[mk[i].len]
  <2>0. PICK l \in 0..e : l = mk[i].len /\ l \in Nat
    BY <1>13
  <2>1. mk1[i] = [mk[i] EXCEPT !.len = Rank(at, l)]
    BY <1>12, <2>0
  <2>2. Rank(at, l) \in Nat /\ Rank(at, l) = g[l]
    <3>1. Rank(at, l) \in 0..h
      BY <1>9, <2>0
    <3> QED BY <1>10, <3>1
  <2> QED BY <1>13, <2>0, <2>1, <2>2 DEF MarkType
<1>15. mk1 \in Seq(MarkType) /\ Len(mk1) = z
  <2>1. mk1 \in [1..z -> MarkType]
    BY <1>12, <1>14
  <2> QED BY <2>1
<1>16. PICK q1 : q1 = Retain(q, C) /\ q1 = [q EXCEPT !.entries = p, !.marks = mk1]
  BY <1>1, <1>3, <1>7, <1>12 DEF Retain, Others
<1>17. q1 = [on |-> q.on, entries |-> p, marks |-> mk1, mode |-> q.mode]
  BY <1>16 DEF QueueType
<1>18. q1 \in QueueType /\ q1.entries = p /\ q1.marks = mk1 /\ q1.on = q.on
  BY <1>15, <1>17, QueueFields DEF QueueType
<1>19. Moved(q1, q, g)
  BY <1>1, <1>8, <1>11, <1>14, <1>15, <1>18 DEF Moved
<1>20. ASSUME NEW l \in 0..e, NEW j \in 1..l, es[j].con \notin C PROVE \E i \in 1..g[l] : p[i] = es[j]
  <2>0. l \in Nat /\ j \in Nat /\ j <= l /\ j \in 1..e /\ g[l] = Rank(at, l) /\ g[l] \in Nat
    BY <1>10, <1>11
  <2>1. j \in at
    BY <1>3, <1>20, <2>0
  <2>2. Rank(at, j) \in 1..h /\ p[Rank(at, j)] = es[j]
    BY <1>7, <1>8, <2>1 DEF Picks
  <2>3. Rank(at, j) <= g[l]
    BY <1>9, <2>0
  <2>4. Rank(at, j) \in 1..g[l]
    BY <2>0, <2>2, <2>3
  <2> QED BY <2>2, <2>4
<1>21. Dropped(q1, q, C, g)
  BY <1>1, <1>8, <1>11, <1>18, <1>19, <1>20 DEF Dropped
<1> QED BY <1>16, <1>21

\* Due: the entries of C.
LEMMA DueIs ==
    ASSUME NEW x \in TxnType, NEW C
    PROVE  /\ \A j \in 1..Len(x.queue.entries) :
                x.queue.entries[j].con \in C => x.queue.entries[j] \in Range(Due(x, C))
           /\ Due(x, C) = <<>> => \A j \in 1..Len(x.queue.entries) : x.queue.entries[j].con \notin C
<1>1. PICK es \in Seq(Entry), e \in Nat : es = x.queue.entries /\ e = Len(es)
  BY TxnFields
<1>2. PICK at : /\ at = {i \in 1..Len(es) : es[i].con \in C} /\ at \in SUBSET (1..e)
                /\ \A i \in 1..e : i \in at <=> es[i].con \in C
  <2>1. PICK at : at = {i \in 1..Len(es) : es[i].con \in C}
    OBVIOUS
  <2>2. \A i : i \in at <=> i \in 1..e /\ es[i].con \in C
    BY <1>1, <2>1
  <2>3. at \in SUBSET (1..e)
    BY <2>2
  <2> QED BY <2>1, <2>2, <2>3
<1>3. PICK p \in Seq(Entry) : p = Due(x, C) /\ Picks(p, es, at)
  BY <1>1, <1>2, PickIs DEF Due
<1>4. \A j \in at : Rank(at, j) \in 1..Len(p) /\ p[Rank(at, j)] = es[j]
  BY <1>3 DEF Picks
<1>5. DOMAIN p = 1..Len(p)
  OBVIOUS
<1>6. \A j \in at : es[j] \in Range(p)
  BY <1>4, <1>5 DEF Range
<1>7. p = <<>> => at = {}
  BY <1>4
<1> QED BY <1>1, <1>2, <1>3, <1>6, <1>7

-----------------------------------------------------------------------------
(* Counting rows and NOTIFYs                                               *)

Log == Row \cup {Notified}
Times(ws, r) == Cardinality({i \in 1..Len(ws) : ws[i] = r})

LEMMA TimesIs ==
    ASSUME NEW ws \in Seq(Log), NEW r
    PROVE  IsFiniteSet({i \in 1..Len(ws) : ws[i] = r}) /\ Times(ws, r) \in Nat
<1> DEFINE at == {i \in 1..Len(ws) : ws[i] = r}
<1>1. IsFiniteSet(1..Len(ws))
  BY FS_Interval
<1>2. at \in SUBSET (1..Len(ws))
  OBVIOUS
<1> HIDE DEF at
<1>3. IsFiniteSet(at)
  BY <1>1, <1>2, FS_Subset
<1>4. Cardinality(at) \in Nat
  BY <1>3, FS_CardinalityType
<1> QED BY <1>3, <1>4 DEF Times, at

LEMMA TimesAppend ==
    ASSUME NEW ws \in Seq(Log), NEW w \in Log, NEW r
    PROVE  Times(Append(ws, w), r) = Times(ws, r) + (IF w = r THEN 1 ELSE 0)
<1>1. PICK z \in Nat, a \in Seq(Log) :
                          /\ z = Len(ws) /\ a = Append(ws, w) /\ Len(a) = z + 1 /\ a[z + 1] = w
                          /\ \A i \in 1..z : a[i] = ws[i]
  <2>1. /\ Append(ws, w) \in Seq(Log)
        /\ Len(ws) \in Nat /\ Len(Append(ws, w)) = Len(ws) + 1 /\ Append(ws, w)[Len(ws) + 1] = w
        /\ \A i \in 1..Len(ws) : Append(ws, w)[i] = ws[i]
    BY AppendIs
  <2> QED BY <2>1
<1>2. PICK at : at = {i \in 1..Len(ws) : ws[i] = r} /\ IsFiniteSet(at) /\ Times(ws, r) = Cardinality(at)
                /\ Cardinality(at) \in Nat
  BY TimesIs DEF Times
<1>3. \A i : i \in 1..(z + 1) <=> i \in 1..z \/ i = z + 1
  OBVIOUS
<1>4. z + 1 \notin at
  BY <1>1, <1>2
<1>5. CASE w = r
  <2>1. {i \in 1..Len(a) : a[i] = r} = at \cup {z + 1}
    BY <1>1, <1>2, <1>3, <1>5
  <2>2. Cardinality(at \cup {z + 1}) = Cardinality(at) + 1
    BY <1>2, <1>4, FS_AddElement
  <2> QED BY <1>1, <1>2, <1>5, <2>1, <2>2 DEF Times
<1>6. CASE w # r
  <2>1. {i \in 1..Len(a) : a[i] = r} = at
    BY <1>1, <1>2, <1>3, <1>6
  <2>2. Times(a, r) = Cardinality(at)
    BY <2>1 DEF Times
  <2> QED BY <1>1, <1>2, <1>6, <2>2
<1> QED BY <1>5, <1>6

LEMMA TimesNone ==
    ASSUME NEW r
    PROVE  Times(<<>>, r) = 0
<1>1. {i \in 1..Len(<<>>) : <<>>[i] = r} = {}
  OBVIOUS
<1> QED BY <1>1, FS_EmptySet DEF Times

Made(c, k, op) == [con |-> c, key |-> k, op |-> op]

LEMMA HoldingBy ==
    ASSUME NEW rs, NEW ws, NEW c, NEW k
    PROVE  Holding(rs, ws, c, k) =
              (rs[<<c, k>>] + Times(ws, Made(c, k, "insert"))) - Times(ws, Made(c, k, "delete"))
BY DEF Holding, Times, Made

Counted == [Con \X Key -> Nat]

LEMMA HoldingAppend ==
    ASSUME NEW rs \in Counted, NEW ws \in Seq(Log), NEW w \in Log, NEW c \in Con, NEW k \in Key
    PROVE  /\ Holding(rs, ws, c, k) \in Int /\ Holding(rs, Append(ws, w), c, k) \in Int
           /\ w = Made(c, k, "insert") =>
                 Holding(rs, Append(ws, w), c, k) = Holding(rs, ws, c, k) + 1
           /\ w = Made(c, k, "delete") =>
                 Holding(rs, Append(ws, w), c, k) = Holding(rs, ws, c, k) - 1
           /\ w # Made(c, k, "insert") /\ w # Made(c, k, "delete") =>
                 Holding(rs, Append(ws, w), c, k) = Holding(rs, ws, c, k)
<1>1. PICK i \in Nat, d \in Nat, n \in Nat :
          /\ i = Times(ws, Made(c, k, "insert")) /\ d = Times(ws, Made(c, k, "delete"))
          /\ n = rs[<<c, k>>]
  BY TimesIs DEF Counted
<1>2. Holding(rs, ws, c, k) = (n + i) - d
  BY <1>1, HoldingBy
<1>3. PICK i1 \in Nat, d1 \in Nat :
          /\ i1 = Times(Append(ws, w), Made(c, k, "insert"))
          /\ d1 = Times(Append(ws, w), Made(c, k, "delete"))
  <2>1. Append(ws, w) \in Seq(Log)
    OBVIOUS
  <2> QED BY <2>1, TimesIs
<1>4. Holding(rs, Append(ws, w), c, k) = (n + i1) - d1
  BY <1>1, <1>3, HoldingBy
<1>5. /\ i1 = i + (IF w = Made(c, k, "insert") THEN 1 ELSE 0)
      /\ d1 = d + (IF w = Made(c, k, "delete") THEN 1 ELSE 0)
  BY <1>1, <1>3, TimesAppend
<1>6. Made(c, k, "insert") # Made(c, k, "delete")
  BY DEF Made
<1> QED BY <1>2, <1>4, <1>5, <1>6

LEMMA HoldingNone ==
    ASSUME NEW rs \in Counted, NEW c \in Con, NEW k \in Key
    PROVE  Holding(rs, <<>>, c, k) = rs[<<c, k>>]
<1>1. rs[<<c, k>>] \in Nat
  BY DEF Counted
<1> QED BY <1>1, HoldingBy, TimesNone

LEMMA MadeIs ==
    ASSUME NEW w \in Log, NEW c, NEW k, NEW op \in {"insert", "delete"}
    PROVE  w = Made(c, k, op) <=> w.op = op /\ w.con = c /\ w.key = k
<1>1. w = [con |-> w.con, key |-> w.key, op |-> w.op]
  BY DEF Log, Row, Notified
<1> QED BY <1>1 DEF Made

\* A write breaks its own key at most.
LEMMA BrokenAppend ==
    ASSUME NEW rs \in Counted, NEW ws \in Seq(Log), NEW w \in Log,
           NEW ck \in Broken(rs, Append(ws, w))
    PROVE  ck \in Broken(rs, ws) \/ (w.op = "insert" /\ ck = <<w.con, w.key>>)
<1>1. PICK c \in Con, k \in Key : ck = <<c, k>>
  BY DEF Broken
<1>2. Holding(rs, Append(ws, w), c, k) > 1
  BY <1>1 DEF Broken
<1>3. CASE w = Made(c, k, "insert")
  BY <1>1, <1>3, MadeIs
<1>4. CASE w # Made(c, k, "insert")
  <2>1. Holding(rs, ws, c, k) \in Int
    BY HoldingAppend
  <2>2. \/ Holding(rs, Append(ws, w), c, k) = Holding(rs, ws, c, k) - 1
        \/ Holding(rs, Append(ws, w), c, k) = Holding(rs, ws, c, k)
    BY <1>4, HoldingAppend
  <2>3. Holding(rs, ws, c, k) > 1
    BY <1>2, <2>1, <2>2
  <2> QED BY <1>1, <2>3 DEF Broken
<1> QED BY <1>3, <1>4

LEMMA AppendPrefix ==
    ASSUME NEW S, NEW s \in Seq(S), NEW m \in S, NEW p \in 0..Len(s)
    PROVE  SubSeq(Append(s, m), 1, p) = SubSeq(s, 1, p)
<1>1. PICK z \in Nat, a \in Seq(S) : /\ z = Len(s) /\ a = Append(s, m) /\ Len(a) = z + 1
                                     /\ \A i \in 1..z : a[i] = s[i]
  <2>1. /\ Append(s, m) \in Seq(S) /\ Len(s) \in Nat /\ Len(Append(s, m)) = Len(s) + 1
        /\ \A i \in 1..Len(s) : Append(s, m)[i] = s[i]
    BY AppendIs
  <2> QED BY <2>1
<1>2. p \in 0..Len(a) /\ \A i \in 1..p : i \in 1..z
  BY <1>1
<1>3. PICK b \in Seq(S) : b = SubSeq(a, 1, p) /\ Len(b) = p /\ p \in Nat /\ \A i \in 1..p : b[i] = a[i]
  <2>1. /\ SubSeq(a, 1, p) \in Seq(S) /\ Len(SubSeq(a, 1, p)) = p /\ p \in Nat
        /\ \A i \in 1..p : SubSeq(a, 1, p)[i] = a[i]
    BY <1>2, PrefixIs
  <2> QED BY <2>1
<1>4. PICK c \in Seq(S) : c = SubSeq(s, 1, p) /\ Len(c) = p /\ \A i \in 1..p : c[i] = s[i]
  <2>1. /\ SubSeq(s, 1, p) \in Seq(S) /\ Len(SubSeq(s, 1, p)) = p
        /\ \A i \in 1..p : SubSeq(s, 1, p)[i] = s[i]
    BY PrefixIs
  <2> QED BY <2>1
<1>5. \A i \in 1..p : b[i] = c[i]
  BY <1>1, <1>2, <1>3, <1>4
<1>6. b = c
  BY <1>3, <1>4, <1>5
<1> QED BY <1>1, <1>3, <1>4, <1>6

-----------------------------------------------------------------------------
(* One write                                                               *)

\* y is x with one more write and what it queued.
Extended(y, x, w) ==
    /\ y \in TxnType /\ y.writes = Append(x.writes, w) /\ y.saves = x.saves
    /\ \E g : Moved(y.queue, x.queue, g) /\ Carries(y.queue, x.queue, g)
    /\ ~y.queue.on => y.queue = NoQueue

LEMMA MovedSame ==
    ASSUME NEW q \in QueueType, Climb(q.marks, Len(q.entries))
    PROVE  \E g : Moved(q, q, g) /\ Carries(q, q, g)
<1>1. PICK e \in Nat, z \in Nat : e = Len(q.entries) /\ z = Len(q.marks) /\ DOMAIN q.marks = 1..z
  BY QueueFields
<1>2. \A i \in 1..z : q.marks[i].len \in 0..e
  BY <1>1 DEF Climb
<1>3. PICK g : g = [l \in 0..e |-> l]
  OBVIOUS
<1>4. g \in [0..e -> 0..e] /\ g[0] = 0 /\ \A l \in 0..e : g[l] = l
  BY <1>3
<1>5. Moved(q, q, g)
  BY <1>1, <1>2, <1>4 DEF Moved
<1>6. Carries(q, q, g)
  BY <1>1, <1>4 DEF Carries
<1> QED BY <1>5, <1>6

LEMMA WroteIs ==
    ASSUME NEW x, Sound(x), NEW w \in Row
    PROVE  /\ Extended(Wrote(x, w), x, w)
           /\ w.op = "insert" /\ Defers(x.queue, w.con) =>
                 \E j \in 1..Len(Wrote(x, w).queue.entries) :
                     Asks(Wrote(x, w).queue.entries[j], <<w.con, w.key>>)
<1>0. /\ x \in TxnType /\ Climb(x.queue.marks, Len(x.queue.entries))
      /\ ~x.queue.on => x.queue = NoQueue
  BY DEF Sound
<1>1. w.con \in Con /\ w.key \in Key /\ x.queue \in QueueType
  BY <1>0, TxnFields DEF Row
<1>2. PICK q : q = IF w.op = "insert" /\ Defers(x.queue, w.con) THEN Push(x.queue, w.con, w.key)
                   ELSE x.queue
  OBVIOUS
<1>3. /\ q \in QueueType /\ (\E g : Moved(q, x.queue, g) /\ Carries(q, x.queue, g))
      /\ ~q.on => q = NoQueue
      /\ w.op = "insert" /\ Defers(x.queue, w.con) =>
            \E j \in 1..Len(q.entries) : Asks(q.entries[j], <<w.con, w.key>>)
  <2>1. CASE w.op = "insert" /\ Defers(x.queue, w.con)
    <3>1. Queued(q, x.queue, w.con, w.key)
      <4>1. Queued(Push(x.queue, w.con, w.key), x.queue, w.con, w.key)
        BY <1>0, <1>1, QueuedIs
      <4> QED BY <1>2, <2>1, <4>1
    <3>2. q \in QueueType
      BY <3>1 DEF Queued, Moved
    <3> QED BY <3>1, <3>2 DEF Queued
  <2>2. CASE ~(w.op = "insert" /\ Defers(x.queue, w.con))
    <3>1. q = x.queue
      BY <1>2, <2>2
    <3>2. \E g : Moved(x.queue, x.queue, g) /\ Carries(x.queue, x.queue, g)
      BY <1>0, <1>1, MovedSame
    <3> QED BY <1>0, <1>1, <2>2, <3>1, <3>2
  <2> QED BY <2>1, <2>2
<1>4. PICK ws \in Seq(Row \cup {Notified}) : ws = Append(x.writes, w)
  <2>1. x.writes \in Seq(Row \cup {Notified}) /\ w \in Row \cup {Notified}
    BY <1>0, TxnFields
  <2> QED BY <2>1, AppendIs
<1>5. Wrote(x, w) = [x EXCEPT !.writes = ws, !.queue = q]
  BY <1>2, <1>4 DEF Wrote
<1>6. Wrote(x, w) = [writes |-> ws, saves |-> x.saves, queue |-> q]
  BY <1>0, <1>5 DEF TxnType
<1>7. PICK y : /\ y = Wrote(x, w) /\ y \in TxnType /\ y.writes = ws /\ y.saves = x.saves /\ y.queue = q
  BY <1>0, <1>3, <1>6, TxnFields DEF TxnType
<1> QED BY <1>3, <1>4, <1>7 DEF Extended

LEMMA NotifiedIs ==
    ASSUME NEW x, Sound(x)
    PROVE  Extended([x EXCEPT !.writes = Append(@, Notified)], x, Notified)
<1>0. /\ x \in TxnType /\ Climb(x.queue.marks, Len(x.queue.entries))
      /\ ~x.queue.on => x.queue = NoQueue
  BY DEF Sound
<1>1. PICK ws \in Seq(Row \cup {Notified}) : ws = Append(x.writes, Notified)
  <2>1. x.writes \in Seq(Row \cup {Notified}) /\ Notified \in Row \cup {Notified}
    BY <1>0, TxnFields
  <2> QED BY <2>1, AppendIs
<1>2. PICK y : y = [x EXCEPT !.writes = Append(@, Notified)]
  OBVIOUS
<1>3. y = [writes |-> ws, saves |-> x.saves, queue |-> x.queue]
  BY <1>0, <1>1, <1>2 DEF TxnType
<1>4. y \in TxnType /\ y.writes = ws /\ y.saves = x.saves /\ y.queue = x.queue
  BY <1>0, <1>3, TxnFields DEF TxnType
<1>5. \E g : Moved(x.queue, x.queue, g) /\ Carries(x.queue, x.queue, g)
  BY <1>0, TxnFields, MovedSame
<1> QED BY <1>0, <1>1, <1>2, <1>4, <1>5 DEF Extended

LEMMA ExtendedSound ==
    ASSUME NEW x, Sound(x), NEW y, NEW w \in Row \cup {Notified}, Extended(y, x, w)
    PROVE  Sound(y) /\ Len(y.writes) = Len(x.writes) + 1
<1>0. x \in TxnType /\ y \in TxnType /\ y.saves = x.saves /\ y.writes = Append(x.writes, w)
  BY DEF Sound, Extended
<1>1. PICK g : Moved(y.queue, x.queue, g)
  BY DEF Extended
<1>2. PICK mk, mk1 : /\ mk = x.queue.marks /\ mk1 = y.queue.marks /\ Climb(mk1, Len(y.queue.entries))
                     /\ \A n : LastNamed(mk1, n) = LastNamed(mk, n) /\ LenAt(mk1, n) = g[LenAt(mk, n)]
  BY <1>1, MovedIs
<1>3. Len(y.writes) = Len(x.writes) + 1 /\ Len(x.writes) \in Nat
  BY <1>0, TxnFields, AppendIs
<1>4. ASSUME NEW i \in 1..Len(x.saves) PROVE x.saves[i].len <= Len(y.writes) /\ x.saves[i].len # Len(y.writes)
  <2>1. x.saves[i].len <= Len(x.writes)
    BY DEF Sound
  <2>2. x.saves[i].len \in Nat
    BY <1>0, TxnFields, SaveFields
  <2> QED BY <1>3, <2>1, <2>2
<1>5. ASSUME NEW i \in 1..Len(x.saves), NEW j \in 1..Len(x.saves), i < j
      PROVE  InOrder(mk1, x.saves[i], x.saves[j])
  <2>1. InOrder(mk, x.saves[i], x.saves[j])
    BY <1>2, <1>5 DEF Sound
  <2> QED BY <1>2, <2>1 DEF InOrder
<1>6. ~y.queue.on => y.queue = NoQueue
  BY DEF Extended
<1>7. Sound(y)
  BY <1>0, <1>2, <1>4, <1>5, <1>6 DEF Sound
<1> QED BY <1>3, <1>7

LEMMA ExtendedOwed ==
    ASSUME NEW x, Sound(x), NEW y, NEW w \in Row \cup {Notified}, Extended(y, x, w),
           NEW rs, NEW since, OwedAt(rs, x, since)
    PROVE  OwedAt(rs, y, since)
<1>0. x \in TxnType /\ y \in TxnType /\ y.saves = x.saves /\ y.writes = Append(x.writes, w)
  BY DEF Sound, Extended
<1>1. PICK g : Moved(y.queue, x.queue, g) /\ Carries(y.queue, x.queue, g)
  BY DEF Extended
<1>2. \A n : /\ LenAt(x.queue.marks, n) \in 0..Len(x.queue.entries)
             /\ LenAt(y.queue.marks, n) = g[LenAt(x.queue.marks, n)]
  BY <1>1, MovedIs
<1> SUFFICES ASSUME NEW i \in 1..Len(x.saves), x.saves[i].len >= since
             PROVE  Covers(rs, SubSeq(y.writes, 1, x.saves[i].len), y.queue.entries,
                           LenAt(y.queue.marks, x.saves[i].name))
  BY <1>0 DEF OwedAt
<1>3. Covers(rs, SubSeq(x.writes, 1, x.saves[i].len), x.queue.entries, LenAt(x.queue.marks, x.saves[i].name))
  BY DEF OwedAt
<1>4. SubSeq(y.writes, 1, x.saves[i].len) = SubSeq(x.writes, 1, x.saves[i].len)
  <2>1. x.saves[i].len <= Len(x.writes)
    BY DEF Sound
  <2>2. x.saves[i].len \in Nat /\ Len(x.writes) \in Nat
    BY <1>0, TxnFields, SaveFields
  <2>3. x.saves[i].len \in 0..Len(x.writes)
    BY <2>1, <2>2
  <2>4. x.writes \in Seq(Row \cup {Notified})
    BY <1>0, TxnFields
  <2> QED BY <1>0, <2>3, <2>4, AppendPrefix
<1>5. PICK l \in 0..Len(x.queue.entries) : l = LenAt(x.queue.marks, x.saves[i].name)
  BY <1>2
<1>6. Covers(rs, SubSeq(x.writes, 1, x.saves[i].len), y.queue.entries, g[l])
  BY <1>1, <1>3, <1>5, CarriesCovers
<1> QED BY <1>2, <1>4, <1>5, <1>6

\* What the new write broke is asked about, or it broke nothing.
LEMMA ExtendedOwes ==
    ASSUME NEW x, Sound(x), NEW y, NEW w \in Row \cup {Notified}, Extended(y, x, w),
           NEW rs \in Counted, OwesNow(rs, x),
           \/ w.op # "insert" \/ <<w.con, w.key>> \notin Broken(rs, Append(x.writes, w))
           \/ \E j \in 1..Len(y.queue.entries) : Asks(y.queue.entries[j], <<w.con, w.key>>)
    PROVE  OwesNow(rs, y)
<1>0. x \in TxnType /\ y \in TxnType /\ y.writes = Append(x.writes, w)
  BY DEF Sound, Extended
<1>1. PICK g : Moved(y.queue, x.queue, g) /\ Carries(y.queue, x.queue, g)
  BY DEF Extended
<1>2. PICK e \in Nat, e1 \in Nat : e = Len(x.queue.entries) /\ e1 = Len(y.queue.entries) /\ g[e] \in 0..e1
  <2>1. Len(x.queue.entries) \in Nat /\ Len(y.queue.entries) \in Nat
    BY <1>0, TxnFields
  <2>2. Len(x.queue.entries) \in 0..Len(x.queue.entries)
    BY <2>1
  <2>3. g[Len(x.queue.entries)] \in 0..Len(y.queue.entries)
    BY <1>1, <2>2 DEF Moved
  <2> QED BY <2>1, <2>3
<1>3. Covers(rs, x.writes, y.queue.entries, g[e])
  <2>1. Covers(rs, x.writes, x.queue.entries, e) /\ e \in 0..Len(x.queue.entries)
    BY <1>2 DEF OwesNow
  <2> QED BY <1>1, <2>1, CarriesCovers
<1> SUFFICES ASSUME NEW ck \in Broken(rs, Append(x.writes, w))
             PROVE  \E j \in 1..e1 : Asks(y.queue.entries[j], ck)
  BY <1>0, <1>2 DEF OwesNow, Covers
<1>4. ck \in Broken(rs, x.writes) \/ (w.op = "insert" /\ ck = <<w.con, w.key>>)
  <2>1. x.writes \in Seq(Log) /\ w \in Log
    BY <1>0, TxnFields DEF Log
  <2> QED BY <2>1, BrokenAppend
<1>5. CASE ck \in Broken(rs, x.writes)
  <2>1. PICK j \in 1..g[e] : Asks(y.queue.entries[j], ck)
    BY <1>3, <1>5 DEF Covers
  <2>2. j \in 1..e1
    BY <1>2
  <2> QED BY <2>1, <2>2
<1>6. CASE w.op = "insert" /\ ck = <<w.con, w.key>>
  BY <1>2, <1>6
<1> QED BY <1>4, <1>5, <1>6

-----------------------------------------------------------------------------
(* SET CONSTRAINTS                                                         *)

LEMMA ModeSetIs ==
    ASSUME NEW x \in TxnType, NEW C, NEW mode \in Modes
    PROVE  LET y == ModeSet(x, C, mode)
           IN  /\ y \in TxnType /\ y.writes = x.writes /\ y.saves = x.saves
               /\ y.queue.entries = x.queue.entries /\ y.queue.marks = x.queue.marks /\ y.queue.on
<1>1. x.queue.mode \in ModeType /\ x.queue \in QueueType
  BY TxnFields
<1>2. PICK m : m = IF C = Con THEN [all |-> mode, named |-> [c \in Con |-> Unset]]
                   ELSE [x.queue.mode EXCEPT !.named = [c \in Con |-> IF c \in C THEN mode
                                                                    ELSE x.queue.mode.named[c]]]
  OBVIOUS
<1>3. m \in ModeType
  <2>1. [c \in Con |-> Unset] \in [Con -> Modes]
    BY DEF Modes
  <2>2. [all |-> mode, named |-> [c \in Con |-> Unset]] \in ModeType
    BY <2>1 DEF ModeType
  <2>3. x.queue.mode.named \in [Con -> Modes] /\ x.queue.mode.all \in Modes
    BY <1>1 DEF ModeType
  <2>4. PICK f : f = [c \in Con |-> IF c \in C THEN mode ELSE x.queue.mode.named[c]]
                 /\ f \in [Con -> Modes]
    <3>1. PICK f : f = [c \in Con |-> IF c \in C THEN mode ELSE x.queue.mode.named[c]]
      OBVIOUS
    <3>2. \A c \in Con : (IF c \in C THEN mode ELSE x.queue.mode.named[c]) \in Modes
      BY <2>3
    <3> QED BY <3>1, <3>2
  <2>5. [x.queue.mode EXCEPT !.named = f] \in ModeType
    BY <1>1, <2>4 DEF ModeType
  <2> QED BY <1>2, <2>2, <2>4, <2>5
<1>4. PICK y : y = ModeSet(x, C, mode) /\ y = [x EXCEPT !.queue.on = TRUE, !.queue.mode = m]
  BY <1>2 DEF ModeSet
<1>5. PICK q \in QueueType : /\ q = [x.queue EXCEPT !.on = TRUE, !.mode = m] /\ q.on
                             /\ q.entries = x.queue.entries /\ q.marks = x.queue.marks
  <2>1. PICK q : q = [x.queue EXCEPT !.on = TRUE, !.mode = m]
    OBVIOUS
  <2>2. q = [on |-> TRUE, entries |-> x.queue.entries, marks |-> x.queue.marks, mode |-> m]
    BY <1>1, <2>1 DEF QueueType
  <2>3. q \in QueueType
    BY <1>3, <2>2, TxnFields DEF QueueType
  <2> QED BY <2>1, <2>2, <2>3
<1>6. y = [writes |-> x.writes, saves |-> x.saves, queue |-> q]
  BY <1>4, <1>5 DEF TxnType
<1>7. y \in TxnType
  BY <1>6, TxnFields DEF TxnType
<1> QED BY <1>4, <1>5, <1>6, <1>7

\* Sound, OwesNow and OwedAt look at neither the mode nor, once something was
\* deferred, at anything else that SET CONSTRAINTS changes.
LEMMA ModeSetKeeps ==
    ASSUME NEW x, Sound(x), NEW C, NEW mode \in Modes
    PROVE  /\ Sound(ModeSet(x, C, mode))
           /\ \A rs, since : /\ OwesNow(rs, x) => OwesNow(rs, ModeSet(x, C, mode))
                             /\ OwedAt(rs, x, since) => OwedAt(rs, ModeSet(x, C, mode), since)
<1>1. x \in TxnType
  BY DEF Sound
<1>2. PICK y \in TxnType : /\ y = ModeSet(x, C, mode) /\ y.writes = x.writes /\ y.saves = x.saves
                           /\ y.queue.entries = x.queue.entries /\ y.queue.marks = x.queue.marks
                           /\ y.queue.on
  BY <1>1, ModeSetIs
<1>3. Sound(y)
  BY <1>2 DEF Sound
<1>4. \A rs, since : /\ OwesNow(rs, x) => OwesNow(rs, y)
                     /\ OwedAt(rs, x, since) => OwedAt(rs, y, since)
  BY <1>2 DEF OwesNow, OwedAt
<1> QED BY <1>2, <1>3, <1>4

LEMMA OwedAtEnd ==
    ASSUME NEW x, Sound(x), NEW rs, OwesNow(rs, x)
    PROVE  OwedAt(rs, x, Len(x.writes))
<1>0. x \in TxnType
  BY DEF Sound
<1> SUFFICES ASSUME NEW i \in 1..Len(x.saves), x.saves[i].len >= Len(x.writes)
             PROVE  Covers(rs, SubSeq(x.writes, 1, x.saves[i].len), x.queue.entries,
                           LenAt(x.queue.marks, x.saves[i].name))
  BY DEF OwedAt
<1>1. x.saves[i].len = Len(x.writes)
  <2>1. x.saves[i].len \in Nat /\ Len(x.writes) \in Nat
    BY <1>0, TxnFields, SaveFields
  <2>2. x.saves[i].len <= Len(x.writes)
    BY DEF Sound
  <2> QED BY <2>1, <2>2
<1>2. LenAt(x.queue.marks, x.saves[i].name) = Len(x.queue.entries)
  BY <1>1 DEF Sound
<1>3. SubSeq(x.writes, 1, Len(x.writes)) = x.writes
  BY <1>0, TxnFields
<1> QED BY <1>1, <1>2, <1>3 DEF OwesNow

\* What dropping the entries of C keeps.
Retains(y, x, C) ==
    /\ Sound(y) /\ y.writes = x.writes /\ y.saves = x.saves
    /\ \A rs : OwesNow(rs, x) /\ Passes(rs, x.writes, Due(x, C)) => OwesNow(rs, y)
    /\ \A rs, since : OwedAt(rs, x, since) /\ Due(x, C) = <<>> => OwedAt(rs, y, since)

LEMMA RetainKeeps ==
    ASSUME NEW x, Sound(x), x.queue.on, NEW C
    PROVE  Retains([x EXCEPT !.queue = Retain(@, C)], x, C)
<1>0. x \in TxnType /\ Climb(x.queue.marks, Len(x.queue.entries)) /\ x.queue \in QueueType
  BY TxnFields DEF Sound
<1>1. PICK q, g : q = Retain(x.queue, C) /\ Dropped(q, x.queue, C, g)
  BY <1>0, DroppedIs
<1>2. q \in QueueType /\ Moved(q, x.queue, g) /\ q.on /\ g[Len(x.queue.entries)] = Len(q.entries)
  BY <1>1 DEF Dropped, Moved
<1>3. PICK y : y = [x EXCEPT !.queue = Retain(@, C)]
  OBVIOUS
<1>4. y = [writes |-> x.writes, saves |-> x.saves, queue |-> q]
  BY <1>0, <1>1, <1>3 DEF TxnType
<1>5. y \in TxnType /\ y.writes = x.writes /\ y.saves = x.saves /\ y.queue = q
  BY <1>0, <1>2, <1>4, TxnFields DEF TxnType
<1>6. PICK mk, mk1 : /\ mk = x.queue.marks /\ mk1 = q.marks /\ Climb(mk1, Len(q.entries))
                     /\ \A n : /\ LastNamed(mk1, n) = LastNamed(mk, n) /\ LenAt(mk1, n) = g[LenAt(mk, n)]
                               /\ LenAt(mk, n) \in 0..Len(x.queue.entries)
  BY <1>2, MovedIs
<1>7. ASSUME NEW i \in 1..Len(x.saves)
      PROVE  /\ x.saves[i].len <= Len(x.writes)
             /\ x.saves[i].len = Len(x.writes) => LenAt(mk1, x.saves[i].name) = Len(q.entries)
  BY <1>2, <1>6 DEF Sound
<1>8. ASSUME NEW i \in 1..Len(x.saves), NEW j \in 1..Len(x.saves), i < j
      PROVE  InOrder(mk1, x.saves[i], x.saves[j])
  <2>1. InOrder(mk, x.saves[i], x.saves[j])
    BY <1>6, <1>8 DEF Sound
  <2> QED BY <1>6, <2>1 DEF InOrder
<1>9. Sound(y)
  BY <1>2, <1>5, <1>6, <1>7, <1>8 DEF Sound
<1>10. PICK e \in Nat, es \in Seq(Entry) : e = Len(es) /\ es = x.queue.entries
  BY <1>0, TxnFields
<1>11. ASSUME NEW l \in 0..e, NEW j \in 1..l, es[j].con \notin C
       PROVE  \E i \in 1..g[l] : q.entries[i] = es[j]
  BY <1>1, <1>10, <1>11 DEF Dropped
<1>12. ASSUME NEW rs, OwesNow(rs, x), Passes(rs, x.writes, Due(x, C)) PROVE OwesNow(rs, y)
  <2> SUFFICES ASSUME NEW ck \in Broken(rs, x.writes)
               PROVE  \E i \in 1..Len(q.entries) : Asks(q.entries[i], ck)
    BY <1>5 DEF OwesNow, Covers
  <2>1. PICK j \in 1..e : Asks(es[j], ck)
    BY <1>10, <1>12 DEF OwesNow, Covers
  <2>2. es[j].con \notin C
    <3> SUFFICES ASSUME es[j].con \in C PROVE FALSE
      OBVIOUS
    <3>1. es[j] \in Range(Due(x, C))
      BY <1>0, <1>10, DueIs
    <3>2. ~(ck[1] = es[j].con /\ es[j].key \in {ck[2], Whole})
      BY <1>12, <3>1 DEF Passes
    <3> QED BY <2>1, <3>2 DEF Asks
  <2>3. e \in 0..e /\ g[e] = Len(q.entries)
    BY <1>2, <1>10
  <2>4. \E i \in 1..g[e] : q.entries[i] = es[j]
    BY <1>11, <2>2, <2>3
  <2> QED BY <2>1, <2>3, <2>4
<1>13. ASSUME NEW rs, NEW since, OwedAt(rs, x, since), Due(x, C) = <<>> PROVE OwedAt(rs, y, since)
  <2>1. \A j \in 1..e : es[j].con \notin C
    BY <1>0, <1>10, <1>13, DueIs
  <2>2. \A l \in 0..e : \A j \in 1..l : j \in 1..e
    BY <1>10
  <2>3. Carries(q, x.queue, g)
    <3> SUFFICES ASSUME NEW l \in 0..e, NEW j \in 1..l, NEW ck \in Con \X Key, Asks(es[j], ck)
                 PROVE  \E i \in 1..g[l] : Asks(q.entries[i], ck)
      BY <1>10 DEF Carries
    <3>1. \E i \in 1..g[l] : q.entries[i] = es[j]
      BY <1>11, <2>1, <2>2
    <3> QED BY <3>1
  <2> SUFFICES ASSUME NEW i \in 1..Len(x.saves), x.saves[i].len >= since
               PROVE  Covers(rs, SubSeq(x.writes, 1, x.saves[i].len), q.entries,
                             LenAt(mk1, x.saves[i].name))
    BY <1>5, <1>6 DEF OwedAt
  <2>4. PICK l \in 0..Len(x.queue.entries) : l = LenAt(mk, x.saves[i].name)
    BY <1>6
  <2>5. Covers(rs, SubSeq(x.writes, 1, x.saves[i].len), x.queue.entries, l)
    BY <1>6, <1>13, <2>4 DEF OwedAt
  <2>6. Covers(rs, SubSeq(x.writes, 1, x.saves[i].len), q.entries, g[l])
    BY <2>3, <2>5, CarriesCovers
  <2> QED BY <1>6, <2>4, <2>6
<1>14. Retains(y, x, C)
  BY <1>5, <1>9, <1>12, <1>13 DEF Retains
<1> QED BY <1>3, <1>14

-----------------------------------------------------------------------------
(* A statement, under its own mark                                         *)

\* did has run under the mark that x set: its last savepoint is the statement's.
Under(did, x) ==
    /\ did.saves = Append(x.saves, [name |-> Statement, len |-> Len(x.writes)])

LEMMA UnderIs ==
    ASSUME NEW x, Sound(x), Own(x)
    PROVE  Under(Savepoint(x, Statement), x)
<1>1. x \in TxnType /\ Statement \in Names
  BY DEF Sound, Names
<1>2. \A i \in 1..Len(x.saves) : x.saves[i].name # Statement
  BY ConnectionAssumption DEF Own
<1>3. Savepoint(x, Statement).saves =
         Append(Pick(x.saves, {i \in 1..Len(x.saves) : x.saves[i].name # Statement}),
                [name |-> Statement, len |-> Len(x.writes)])
  BY <1>1, SavepointIs
<1>4. Pick(x.saves, {i \in 1..Len(x.saves) : x.saves[i].name # Statement}) = x.saves
  <2>1. x.saves \in Seq(SaveType)
    BY <1>1, TxnFields
  <2>2. {i \in 1..Len(x.saves) : x.saves[i].name # Statement} = 1..Len(x.saves)
    BY <1>2
  <2>3. Pick(x.saves, 1..Len(x.saves)) = x.saves
    BY <2>1, PickAll
  <2> QED BY <2>2, <2>3
<1> QED BY <1>3, <1>4 DEF Under

LEMMA UnderLast ==
    ASSUME NEW x \in TxnType, NEW did, Under(did, x)
    PROVE  /\ HasSave(did, Statement) /\ Saved(did, Statement) = Len(x.saves) + 1
           /\ did.saves[Len(x.saves) + 1].len = Len(x.writes)
           /\ Len(did.saves) = Len(x.saves) + 1
           /\ SubSeq(did.saves, 1, (Len(x.saves) + 1) - 1) = x.saves
           /\ SubSeq(did.saves, 1, Len(x.saves) + 1) = did.saves
<1>1. PICK s \in SaveType : /\ s = [name |-> Statement, len |-> Len(x.writes)] /\ s.name = Statement
                            /\ s.len = Len(x.writes)
  <2>1. PICK s : s = [name |-> Statement, len |-> Len(x.writes)]
    OBVIOUS
  <2>2. s \in SaveType
    BY <2>1, TxnFields DEF SaveType, Names
  <2> QED BY <2>1, <2>2
<1>2. PICK z \in Nat, sv \in Seq(SaveType) : z = Len(sv) /\ sv = x.saves
  BY TxnFields
<1>3. PICK a \in Seq(SaveType) : /\ a = Append(sv, s) /\ a = did.saves /\ Len(a) = z + 1 /\ a[z + 1] = s
  <2>1. Append(sv, s) \in Seq(SaveType) /\ Len(Append(sv, s)) = Len(sv) + 1 /\ Append(sv, s)[Len(sv) + 1] = s
    BY AppendIs
  <2>2. did.saves = Append(sv, s)
    BY <1>1, <1>2 DEF Under
  <2> QED BY <1>2, <2>1, <2>2
<1>4. LastNamed(a, Statement) = z + 1
  BY <1>1, <1>2, <1>3, LastOfAppend
<1>5. z + 1 > 0 /\ (z + 1) - 1 = z /\ z \in 0..Len(sv)
  BY <1>2
<1>6. SubSeq(a, 1, z) = sv
  <2>1. SubSeq(Append(sv, s), 1, z) = SubSeq(sv, 1, z)
    BY <1>5, AppendPrefix
  <2>2. SubSeq(sv, 1, z) = sv
    BY <1>2
  <2> QED BY <1>3, <2>1, <2>2
<1>7. SubSeq(a, 1, z + 1) = a
  BY <1>3
<1> QED BY <1>1, <1>2, <1>3, <1>4, <1>5, <1>6, <1>7 DEF HasSave, Saved

LEMMA SucceededIs ==
    ASSUME NEW x, Sound(x), NEW did, Sound(did), Under(did, x)
    PROVE  /\ Sound(Succeeded(did)) /\ Succeeded(did).writes = did.writes
           /\ Succeeded(did).saves = x.saves
           /\ \A rs, since : /\ OwesNow(rs, did) => OwesNow(rs, Succeeded(did))
                             /\ OwedAt(rs, did, since) => OwedAt(rs, Succeeded(did), since)
<1>1. /\ HasSave(did, Statement) /\ Saved(did, Statement) = Len(x.saves) + 1
      /\ SubSeq(did.saves, 1, (Len(x.saves) + 1) - 1) = x.saves
  BY UnderLast DEF Sound
<1>2. PICK y : y = Succeeded(did) /\ y = Released(did, Statement)
  BY DEF Succeeded
<1>3. Without(y, did, Len(x.saves) + 1)
  BY <1>1, <1>2, WithoutIs
<1>4. y.writes = did.writes /\ y.saves = x.saves
  BY <1>1, <1>3 DEF Without
<1>5. Sound(y)
  BY <1>1, <1>2, ReleasedSound
<1>6. \A rs, since : /\ OwesNow(rs, did) => OwesNow(rs, y)
                     /\ OwedAt(rs, did, since) => OwedAt(rs, y, since)
  BY <1>1, <1>2, ReleasedOwed
<1> QED BY <1>2, <1>4, <1>5, <1>6

LEMMA FailedIs ==
    ASSUME NEW x, Sound(x), NEW did, Sound(did), Under(did, x),
           SubSeq(did.writes, 1, Len(x.writes)) = x.writes
    PROVE  /\ Sound(Failed(did)) /\ Failed(did).writes = x.writes
           /\ Failed(did).saves = x.saves
           /\ \A rs, since : OwedAt(rs, did, since) /\ Len(x.writes) >= since =>
                                OwesNow(rs, Failed(did)) /\ OwedAt(rs, Failed(did), since)
<1>0. x \in TxnType
  BY DEF Sound
<1>1. /\ HasSave(did, Statement) /\ Saved(did, Statement) = Len(x.saves) + 1
      /\ did.saves[Len(x.saves) + 1].len = Len(x.writes)
      /\ SubSeq(did.saves, 1, Len(x.saves) + 1) = did.saves
  BY <1>0, UnderLast
<1>2. PICK r : r = RolledBackTo(did, Statement)
  OBVIOUS
<1>3. Sound(r)
  BY <1>1, <1>2, RolledBackSound
<1>4. r.writes = x.writes /\ r.saves = did.saves
  BY <1>1, <1>2 DEF RolledBackTo
<1>5. Under(r, x)
  BY <1>4 DEF Under
<1>6. Failed(did) = Succeeded(r)
  BY <1>2 DEF Failed, Succeeded
<1>7. /\ Sound(Succeeded(r)) /\ Succeeded(r).writes = x.writes /\ Succeeded(r).saves = x.saves
      /\ \A rs, since : /\ OwesNow(rs, r) => OwesNow(rs, Succeeded(r))
                        /\ OwedAt(rs, r, since) => OwedAt(rs, Succeeded(r), since)
  BY <1>3, <1>4, <1>5, SucceededIs
<1>8. ASSUME NEW rs, NEW since, OwedAt(rs, did, since), Len(x.writes) >= since
      PROVE  OwesNow(rs, r) /\ OwedAt(rs, r, since)
  <2>1. OwedAt(rs, RolledBackTo(did, Statement), since)
    BY <1>1, <1>8, RolledBackOwed
  <2>2. did.saves[Saved(did, Statement)].len >= since
    BY <1>1, <1>8
  <2>3. OwesNow(rs, RolledBackTo(did, Statement))
    BY <1>1, <1>8, <2>2, RolledBackOwed
  <2> QED BY <1>2, <2>1, <2>3
<1> QED BY <1>6, <1>7, <1>8

\* What a row write makes of the transaction before it is settled.
LEMMA WroteUnder ==
    ASSUME NEW x, Sound(x), Own(x), NEW w \in Row
    PROVE  LET did == Wrote(Savepoint(x, Statement), w)
           IN  /\ Sound(did) /\ Under(did, x) /\ did.writes = Append(x.writes, w)
               /\ \A rs, since : OwesNow(rs, x) /\ OwedAt(rs, x, since) => OwedAt(rs, did, since)
<1>1. PICK s : s = Savepoint(x, Statement) /\ Statement \in Names /\ Sound(s) /\ Under(s, x)
  BY UnderIs, SavepointSound DEF Names
<1>2. s.writes = x.writes
  BY <1>1, SavepointIs DEF Sound
<1>3. PICK did : did = Wrote(s, w) /\ Extended(did, s, w)
  BY <1>1, WroteIs
<1>4. Sound(did)
  BY <1>1, <1>3, ExtendedSound
<1>5. did.writes = Append(x.writes, w) /\ Under(did, x)
  BY <1>1, <1>2, <1>3 DEF Extended, Under
<1>6. ASSUME NEW rs, NEW since, OwesNow(rs, x), OwedAt(rs, x, since) PROVE OwedAt(rs, did, since)
  <2>1. OwedAt(rs, s, since)
    BY <1>1, <1>6, SavepointOwed
  <2> QED BY <1>1, <1>3, <2>1, ExtendedOwed
<1> QED BY <1>1, <1>3, <1>4, <1>5, <1>6

LEMMA WriteRowKeeps ==
    ASSUME NEW x, Sound(x), Own(x), NEW w \in Row
    PROVE  LET y == Succeeded(Wrote(Savepoint(x, Statement), w))
           IN  /\ Sound(y) /\ y.writes = Append(x.writes, w) /\ y.saves = x.saves
               /\ \A rs \in Counted : \A since :
                    OwesNow(rs, x) /\ OwedAt(rs, x, since) /\ Admits(rs, x, w) =>
                       OwesNow(rs, y) /\ OwedAt(rs, y, since)
<1>1. PICK did : /\ did = Wrote(Savepoint(x, Statement), w)
                 /\ Sound(did) /\ Under(did, x) /\ did.writes = Append(x.writes, w)
                 /\ \A rs, since : OwesNow(rs, x) /\ OwedAt(rs, x, since) => OwedAt(rs, did, since)
  BY WroteUnder
<1>2. PICK y : y = Succeeded(did) /\ Sound(y) /\ y.writes = did.writes /\ y.saves = x.saves
               /\ \A rs, since : /\ OwesNow(rs, did) => OwesNow(rs, y)
                                 /\ OwedAt(rs, did, since) => OwedAt(rs, y, since)
  BY <1>1, SucceededIs
<1>3. ASSUME NEW rs \in Counted, NEW since, OwesNow(rs, x), OwedAt(rs, x, since), Admits(rs, x, w)
      PROVE  OwesNow(rs, did)
  <2>1. PICK s : s = Savepoint(x, Statement) /\ Statement \in Names /\ Sound(s)
    BY SavepointSound DEF Names
  <2>2. s.writes = x.writes /\ s.queue.mode = x.queue.mode
    BY <2>1, SavepointIs DEF Sound
  <2>3. OwesNow(rs, s)
    BY <1>3, <2>1, SavepointOwed
  <2>4. /\ Extended(did, s, w)
        /\ w.op = "insert" /\ Defers(s.queue, w.con) =>
              \E j \in 1..Len(did.queue.entries) : Asks(did.queue.entries[j], <<w.con, w.key>>)
    BY <1>1, <2>1, WroteIs
  <2>5. Defers(s.queue, w.con) <=> Defers(x.queue, w.con)
    BY <2>2 DEF Defers
  <2>6. \/ w.op # "insert" \/ <<w.con, w.key>> \notin Broken(rs, Append(s.writes, w))
        \/ \E j \in 1..Len(did.queue.entries) : Asks(did.queue.entries[j], <<w.con, w.key>>)
    <3>1. w.op = "delete" => w.op # "insert"
      OBVIOUS
    <3> QED BY <1>3, <2>2, <2>4, <2>5, <3>1 DEF Admits
  <2>7. w \in Row \cup {Notified}
    OBVIOUS
  <2> QED BY <2>1, <2>3, <2>4, <2>6, <2>7, ExtendedOwes
<1> QED BY <1>1, <1>2, <1>3

LEMMA WriteFailsKeeps ==
    ASSUME NEW x, Sound(x), Own(x), NEW w \in Row
    PROVE  LET y == Failed(Wrote(Savepoint(x, Statement), w))
           IN  /\ Sound(y) /\ y.writes = x.writes /\ y.saves = x.saves
               /\ \A rs, since : OwesNow(rs, x) /\ OwedAt(rs, x, since) /\ Len(x.writes) >= since =>
                       OwesNow(rs, y) /\ OwedAt(rs, y, since)
<1>1. PICK did : /\ did = Wrote(Savepoint(x, Statement), w)
                 /\ Sound(did) /\ Under(did, x) /\ did.writes = Append(x.writes, w)
                 /\ \A rs, since : OwesNow(rs, x) /\ OwedAt(rs, x, since) => OwedAt(rs, did, since)
  BY WroteUnder
<1>2. SubSeq(did.writes, 1, Len(x.writes)) = x.writes
  <2>1. x.writes \in Seq(Row \cup {Notified}) /\ Len(x.writes) \in 0..Len(x.writes) /\ w \in Row \cup {Notified}
    BY TxnFields DEF Sound
  <2>2. SubSeq(Append(x.writes, w), 1, Len(x.writes)) = SubSeq(x.writes, 1, Len(x.writes))
    BY <2>1, AppendPrefix
  <2>3. SubSeq(x.writes, 1, Len(x.writes)) = x.writes
    BY <2>1
  <2> QED BY <1>1, <2>2, <2>3
<1>3. PICK y : y = Failed(did) /\ Sound(y) /\ y.writes = x.writes /\ y.saves = x.saves
               /\ \A rs, since : OwedAt(rs, did, since) /\ Len(x.writes) >= since =>
                                    OwesNow(rs, y) /\ OwedAt(rs, y, since)
  BY <1>1, <1>2, FailedIs
<1> QED BY <1>1, <1>3

\* SET CONSTRAINTS under its mark, before anything is dropped.
LEMMA ModeUnder ==
    ASSUME NEW x, Sound(x), Own(x), NEW C, NEW mode \in Modes
    PROVE  LET did == ModeSet(Savepoint(x, Statement), C, mode)
           IN  /\ Sound(did) /\ Under(did, x) /\ did.writes = x.writes /\ did.queue.on
               /\ \A rs, since : OwesNow(rs, x) /\ OwedAt(rs, x, since) =>
                                    OwesNow(rs, did) /\ OwedAt(rs, did, since)
<1>1. PICK s : s = Savepoint(x, Statement) /\ Statement \in Names /\ Sound(s) /\ Under(s, x)
  BY UnderIs, SavepointSound DEF Names
<1>2. s.writes = x.writes /\ s \in TxnType
  BY <1>1, SavepointIs DEF Sound
<1>3. PICK did : /\ did = ModeSet(s, C, mode) /\ did.writes = s.writes /\ did.saves = s.saves /\ did.queue.on
  BY <1>2, ModeSetIs
<1>4. /\ Sound(did)
      /\ \A rs, since : /\ OwesNow(rs, s) => OwesNow(rs, did)
                        /\ OwedAt(rs, s, since) => OwedAt(rs, did, since)
  BY <1>1, <1>3, ModeSetKeeps
<1>5. did.writes = x.writes /\ Under(did, x)
  BY <1>1, <1>2, <1>3 DEF Under
<1>6. ASSUME NEW rs, NEW since, OwesNow(rs, x), OwedAt(rs, x, since)
      PROVE  OwesNow(rs, did) /\ OwedAt(rs, did, since)
  <2>1. OwesNow(rs, s) /\ OwedAt(rs, s, since)
    BY <1>1, <1>6, SavepointOwed
  <2> QED BY <1>4, <2>1
<1> QED BY <1>1, <1>3, <1>4, <1>5, <1>6

LEMMA ModeFailsKeeps ==
    ASSUME NEW x, Sound(x), Own(x), NEW C, NEW mode \in Modes
    PROVE  LET y == Failed(ModeSet(Savepoint(x, Statement), C, mode))
           IN  /\ Sound(y) /\ y.writes = x.writes /\ y.saves = x.saves
               /\ \A rs, since : OwesNow(rs, x) /\ OwedAt(rs, x, since) /\ Len(x.writes) >= since =>
                       OwesNow(rs, y) /\ OwedAt(rs, y, since)
<1>1. PICK did : /\ did = ModeSet(Savepoint(x, Statement), C, mode)
                 /\ Sound(did) /\ Under(did, x) /\ did.writes = x.writes
                 /\ \A rs, since : OwesNow(rs, x) /\ OwedAt(rs, x, since) => OwedAt(rs, did, since)
  BY ModeUnder
<1>2. SubSeq(did.writes, 1, Len(x.writes)) = x.writes
  <2>1. x.writes \in Seq(Row \cup {Notified})
    BY TxnFields DEF Sound
  <2> QED BY <1>1, <2>1
<1>3. PICK y : y = Failed(did) /\ Sound(y) /\ y.writes = x.writes /\ y.saves = x.saves
               /\ \A rs, since : OwedAt(rs, did, since) /\ Len(x.writes) >= since =>
                                    OwesNow(rs, y) /\ OwedAt(rs, y, since)
  BY <1>1, <1>2, FailedIs
<1> QED BY <1>1, <1>3

LEMMA ModeKeeps ==
    ASSUME NEW x, Sound(x), Own(x), NEW C, NEW mode \in Modes
    PROVE  LET y == Succeeded(ModeSet(Savepoint(x, Statement), C, mode))
           IN  /\ Sound(y) /\ y.writes = x.writes /\ y.saves = x.saves
               /\ \A rs, since : OwesNow(rs, x) /\ OwedAt(rs, x, since) =>
                       OwesNow(rs, y) /\ OwedAt(rs, y, since)
<1>1. PICK did : /\ did = ModeSet(Savepoint(x, Statement), C, mode)
                 /\ Sound(did) /\ Under(did, x) /\ did.writes = x.writes
                 /\ \A rs, since : OwesNow(rs, x) /\ OwedAt(rs, x, since) =>
                                      OwesNow(rs, did) /\ OwedAt(rs, did, since)
  BY ModeUnder
<1>2. PICK y : y = Succeeded(did) /\ Sound(y) /\ y.writes = did.writes /\ y.saves = x.saves
               /\ \A rs, since : /\ OwesNow(rs, did) => OwesNow(rs, y)
                                 /\ OwedAt(rs, did, since) => OwedAt(rs, y, since)
  BY <1>1, SucceededIs
<1> QED BY <1>1, <1>2

\* ... IMMEDIATE: what was due is checked and dropped.
LEMMA ImmediateKeeps ==
    ASSUME NEW x, Sound(x), Own(x), NEW C, NEW mode \in Modes
    PROVE  LET did == ModeSet(Savepoint(x, Statement), C, mode)
               y == Succeeded([did EXCEPT !.queue = Retain(@, C)])
           IN  /\ Sound(y) /\ y.writes = x.writes /\ y.saves = x.saves
               /\ \A rs, since : OwesNow(rs, x) /\ OwedAt(rs, x, since)
                                 /\ Passes(rs, x.writes, Due(did, C)) =>
                       /\ OwesNow(rs, y) /\ OwedAt(rs, y, Len(x.writes))
                       /\ Due(did, C) = <<>> => OwedAt(rs, y, since)
<1>1. PICK did : /\ did = ModeSet(Savepoint(x, Statement), C, mode)
                 /\ Sound(did) /\ Under(did, x) /\ did.writes = x.writes /\ did.queue.on
                 /\ \A rs, since : OwesNow(rs, x) /\ OwedAt(rs, x, since) =>
                                      OwesNow(rs, did) /\ OwedAt(rs, did, since)
  BY ModeUnder
<1>2. PICK r : /\ r = [did EXCEPT !.queue = Retain(@, C)]
               /\ Sound(r) /\ r.writes = did.writes /\ r.saves = did.saves
               /\ \A rs, since :
                    /\ OwesNow(rs, did) /\ Passes(rs, did.writes, Due(did, C)) => OwesNow(rs, r)
                    /\ OwedAt(rs, did, since) /\ Due(did, C) = <<>> => OwedAt(rs, r, since)
  <2>1. PICK r : r = [did EXCEPT !.queue = Retain(@, C)] /\ Retains(r, did, C)
    BY <1>1, RetainKeeps
  <2> QED BY <2>1 DEF Retains
<1>3. Under(r, x)
  BY <1>1, <1>2 DEF Under
<1>4. PICK y : y = Succeeded(r) /\ Sound(y) /\ y.writes = r.writes /\ y.saves = x.saves
               /\ \A rs, since : /\ OwesNow(rs, r) => OwesNow(rs, y)
                                 /\ OwedAt(rs, r, since) => OwedAt(rs, y, since)
  <2>1. Sound(Succeeded(r)) /\ Succeeded(r).writes = r.writes /\ Succeeded(r).saves = x.saves
    BY <1>2, <1>3, SucceededIs
  <2>2. \A rs, since : /\ OwesNow(rs, r) => OwesNow(rs, Succeeded(r))
                       /\ OwedAt(rs, r, since) => OwedAt(rs, Succeeded(r), since)
    BY <1>2, <1>3, SucceededIs
  <2> QED BY <2>1, <2>2
<1>5. ASSUME NEW rs, NEW since, OwesNow(rs, x), OwedAt(rs, x, since), Passes(rs, x.writes, Due(did, C))
      PROVE  /\ OwesNow(rs, y) /\ OwedAt(rs, y, Len(x.writes))
             /\ Due(did, C) = <<>> => OwedAt(rs, y, since)
  <2>1. OwesNow(rs, did) /\ OwedAt(rs, did, since)
    BY <1>1, <1>5
  <2>2. OwesNow(rs, y)
    BY <1>1, <1>2, <1>4, <1>5, <2>1
  <2>3. OwedAt(rs, y, Len(y.writes))
    BY <1>4, <2>2, OwedAtEnd
  <2>4. Due(did, C) = <<>> => OwedAt(rs, y, since)
    BY <1>2, <1>4, <2>1
  <2> QED BY <1>1, <1>2, <1>4, <2>2, <2>3, <2>4
<1> QED BY <1>1, <1>2, <1>4, <1>5

-----------------------------------------------------------------------------
(* The rows the transaction can go back to                                 *)

LEMMA CountableNow ==
    ASSUME NEW rs, NEW ws \in Seq(Log), Countable(rs, ws), NEW c \in Con, NEW k \in Key
    PROVE  Holding(rs, ws, c, k) \in 0..MaxRows
<1>1. Len(ws) \in 0..Len(ws) /\ SubSeq(ws, 1, Len(ws)) = ws
  OBVIOUS
<1>2. Holding(rs, SubSeq(ws, 1, Len(ws)), c, k) \in 0..MaxRows
  BY <1>1 DEF Countable
<1> QED BY <1>1, <1>2

LEMMA CountableNone ==
    ASSUME NEW rs \in [Con \X Key -> 0..MaxRows]
    PROVE  Countable(rs, <<>>) /\ rs \in Counted
<1>1. rs \in Counted
  BY ConnectionAssumption DEF Counted
<1>2. ASSUME NEW n \in 0..Len(<<>>), NEW c \in Con, NEW k \in Key
      PROVE  Holding(rs, SubSeq(<<>>, 1, n), c, k) \in 0..MaxRows
  <2>1. SubSeq(<<>>, 1, n) = <<>>
    OBVIOUS
  <2>2. rs[<<c, k>>] \in 0..MaxRows
    OBVIOUS
  <2>3. Holding(rs, <<>>, c, k) = rs[<<c, k>>]
    BY <1>1, HoldingNone
  <2> QED BY <2>1, <2>2, <2>3
<1> QED BY <1>1, <1>2 DEF Countable

LEMMA CountableCut ==
    ASSUME NEW rs, NEW ws \in Seq(Log), Countable(rs, ws), NEW p \in 0..Len(ws)
    PROVE  Countable(rs, SubSeq(ws, 1, p))
<1>1. Len(SubSeq(ws, 1, p)) = p /\ p \in Nat
  BY PrefixIs
<1> SUFFICES ASSUME NEW n \in 0..p, NEW c \in Con, NEW k \in Key
             PROVE  Holding(rs, SubSeq(SubSeq(ws, 1, p), 1, n), c, k) \in 0..MaxRows
  BY <1>1 DEF Countable
<1>2. SubSeq(SubSeq(ws, 1, p), 1, n) = SubSeq(ws, 1, n)
  BY PrefixPrefix
<1>3. n \in 0..Len(ws)
  BY <1>1
<1>4. Holding(rs, SubSeq(ws, 1, n), c, k) \in 0..MaxRows
  BY <1>3 DEF Countable
<1> QED BY <1>2, <1>4

\* A write that can be made: a row to delete, or room for one more.
LEMMA CountableAppend ==
    ASSUME NEW rs \in Counted, NEW ws \in Seq(Log), Countable(rs, ws), NEW w \in Log,
           \/ w = Notified
           \/ /\ w \in Row
              /\ w.op = "delete" => Holding(rs, ws, w.con, w.key) > 0
              /\ w.op # "delete" => Holding(rs, ws, w.con, w.key) < MaxRows
    PROVE  Countable(rs, Append(ws, w))
<1>1. /\ Append(ws, w) \in Seq(Log) /\ Len(ws) \in Nat /\ Len(Append(ws, w)) = Len(ws) + 1
  BY AppendIs
<1> SUFFICES ASSUME NEW n \in 0..(Len(ws) + 1), NEW c \in Con, NEW k \in Key
             PROVE  Holding(rs, SubSeq(Append(ws, w), 1, n), c, k) \in 0..MaxRows
  BY <1>1 DEF Countable
<1>2. CASE n \in 0..Len(ws)
  <2>1. SubSeq(Append(ws, w), 1, n) = SubSeq(ws, 1, n)
    BY <1>2, AppendPrefix
  <2>2. Holding(rs, SubSeq(ws, 1, n), c, k) \in 0..MaxRows
    BY <1>2 DEF Countable
  <2> QED BY <2>1, <2>2
<1>3. CASE n = Len(ws) + 1
  <2>1. SubSeq(Append(ws, w), 1, n) = Append(ws, w)
    BY <1>1, <1>3
  <2>2. PICK h, h1 : /\ h = Holding(rs, ws, c, k) /\ h1 = Holding(rs, Append(ws, w), c, k)
                     /\ h \in 0..MaxRows
    BY CountableNow
  <2>3. MaxRows \in Nat
    BY ConnectionAssumption
  <2>4. CASE w = Made(c, k, "insert")
    <3>1. h1 = h + 1
      BY <2>2, <2>4, HoldingAppend
    <3>2. w.op = "insert" /\ w.con = c /\ w.key = k
      BY <2>4, MadeIs
    <3>3. w # Notified
      BY <3>2 DEF Notified
    <3>4. h < MaxRows
      BY <2>2, <3>2, <3>3
    <3>5. h1 \in 0..MaxRows
      <4> HIDE <1>2, <1>3
      <4>1. h \in 0..MaxRows
        BY <2>2
      <4> QED BY <4>1, <2>3, <3>1, <3>4
    <3> QED BY <2>1, <2>2, <3>5
  <2>5. CASE w = Made(c, k, "delete")
    <3>1. h1 = h - 1
      BY <2>2, <2>5, HoldingAppend
    <3>2. w.op = "delete" /\ w.con = c /\ w.key = k
      BY <2>5, MadeIs
    <3>3. w # Notified
      BY <3>2 DEF Notified
    <3>4. h > 0
      BY <2>2, <3>2, <3>3
    <3>5. h1 \in 0..MaxRows
      <4> HIDE <1>2, <1>3
      <4>1. h \in 0..MaxRows
        BY <2>2
      <4> QED BY <4>1, <2>3, <3>1, <3>4
    <3> QED BY <2>1, <2>2, <3>5
  <2>6. CASE w # Made(c, k, "insert") /\ w # Made(c, k, "delete")
    <3>1. h1 = h
      BY <2>2, <2>6, HoldingAppend
    <3> QED BY <2>1, <2>2, <3>1
  <2> QED BY <2>4, <2>5, <2>6
<1> QED BY <1>1, <1>2, <1>3

-----------------------------------------------------------------------------
(* The NOTIFY queue's marks                                                *)

PlaceType == [name : SaveName, len : Nat]

LEMMA NotifyFields ==
    ASSUME NEW q \in NotifyType
    PROVE  q.queued \in Nat /\ q.marks \in Seq(PlaceType)
BY DEF NotifyType, PlaceType

LEMMA NotifiesAre ==
    ASSUME NEW ws
    PROVE  NotifiesIn(ws) = Times(ws, Notified)
BY DEF NotifiesIn, Times

LEMMA TalliesSavepoint ==
    ASSUME NEW len \in Nat, NEW mk \in Seq(PlaceType), NEW ws \in Seq(Log), NEW sv,
           Tallies(len, mk, ws, sv), NEW n \in SaveName, NEW y,
           Joined(y, sv, n, [name |-> n, len |-> Len(ws)])
    PROVE  Tallies(len, Append(mk, [name |-> n, len |-> len]), ws, y)
<1>1. PICK m \in PlaceType : m = [name |-> n, len |-> len] /\ m.name = n /\ m.len = len
  <2>1. [name |-> n, len |-> len] \in PlaceType
    BY DEF PlaceType
  <2> QED BY <2>1
<1> DEFINE a == Append(mk, m)
<1> HIDE DEF a
<1>2. PICK z \in Nat : z + 1 = Len(y) /\ z = Len(y) - 1
  <2>1. Len(y) \in Nat \ {0}
    BY DEF Joined
  <2>2. Len(y) - 1 \in Nat /\ (Len(y) - 1) + 1 = Len(y)
    BY <2>1
  <2> QED BY <2>2
<1>3. y[z + 1] = [name |-> n, len |-> Len(ws)] /\ y[z + 1].name = n /\ y[z + 1].len = Len(ws)
  BY <1>2 DEF Joined
<1>4. LastNamed(a, n) = Len(mk) + 1 /\ LenAt(a, n) = len
  BY <1>1, LastOfAppend, LenAtAppend DEF a
<1>5. ASSUME NEW k, k # n
      PROVE  LastNamed(a, k) = LastNamed(mk, k) /\ LenAt(a, k) = LenAt(mk, k)
  BY <1>1, <1>5, LastOfAppend, LenAtAppend DEF a
<1>6. \A k : LastNamed(mk, k) \in 0..Len(mk)
  <2> SUFFICES ASSUME NEW k PROVE LastNamed(mk, k) \in 0..Len(mk)
    OBVIOUS
  <2>1. IsLast(mk, k, LastNamed(mk, k))
    BY LastIs
  <2> QED BY <2>1 DEF IsLast
<1>7. len = NotifiesIn(ws) /\ SubSeq(ws, 1, Len(ws)) = ws
  BY DEF Tallies
<1>8. ASSUME NEW i \in 1..z
      PROVE  /\ LastNamed(a, y[i].name) # 0 /\ LastNamed(a, y[i].name) \in 0..Len(mk)
             /\ LenAt(a, y[i].name) = NotifiesIn(SubSeq(ws, 1, y[i].len))
  <2>1. PICK g \in 1..Len(sv) : y[i] = sv[g] /\ sv[g].name # n
    BY <1>2 DEF Joined
  <2>2. /\ LastNamed(mk, sv[g].name) # 0
        /\ LenAt(mk, sv[g].name) = NotifiesIn(SubSeq(ws, 1, sv[g].len))
    BY DEF Tallies
  <2> QED BY <1>5, <1>6, <2>1, <2>2
<1>9. ASSUME NEW i \in 1..z, NEW j \in 1..z, i < j
      PROVE  LastNamed(a, y[i].name) < LastNamed(a, y[j].name)
  <2>1. PICK g \in 1..Len(sv), h \in 1..Len(sv) : g < h /\ y[i] = sv[g] /\ y[j] = sv[h]
    BY <1>2, <1>9 DEF Joined
  <2>2. LastNamed(mk, sv[g].name) < LastNamed(mk, sv[h].name)
    BY <2>1 DEF Tallies
  <2>3. y[i].name # n /\ y[j].name # n
    BY <1>2 DEF Joined
  <2> QED BY <1>5, <2>1, <2>2, <2>3
<1>10. ASSUME NEW i \in 1..Len(y)
       PROVE  /\ LastNamed(a, y[i].name) # 0
              /\ LenAt(a, y[i].name) = NotifiesIn(SubSeq(ws, 1, y[i].len))
  <2>1. CASE i \in 1..z
    BY <1>8, <2>1
  <2>2. CASE i = z + 1
    <3>1. y[i].name = n /\ y[i].len = Len(ws)
      BY <1>3, <2>2
    <3>2. Len(mk) + 1 # 0
      OBVIOUS
    <3> QED BY <1>4, <1>7, <3>1, <3>2
  <2>3. \A e \in 1..(z + 1) : e \in 1..z \/ e = z + 1
    OBVIOUS
  <2> QED BY <1>2, <2>1, <2>2, <2>3
<1>11. ASSUME NEW i \in 1..Len(y), NEW j \in 1..Len(y), i < j
       PROVE  LastNamed(a, y[i].name) < LastNamed(a, y[j].name)
  <2>1. i \in 1..z /\ (j \in 1..z \/ j = z + 1)
    <3>1. \A e, f \in 1..(z + 1) : e < f => e \in 1..z /\ (f \in 1..z \/ f = z + 1)
      OBVIOUS
    <3> QED BY <1>2, <1>11, <3>1
  <2>2. CASE j \in 1..z
    BY <1>9, <1>11, <2>1, <2>2
  <2>3. CASE j = z + 1
    <3>1. LastNamed(a, y[i].name) \in 0..Len(mk) /\ Len(mk) \in Nat
      BY <1>8, <2>1
    <3>2. LastNamed(a, y[j].name) = Len(mk) + 1
      BY <1>3, <1>4, <2>3
    <3> QED BY <3>1, <3>2
  <2> QED BY <2>1, <2>2, <2>3
<1> QED BY <1>1, <1>7, <1>10, <1>11 DEF Tallies, a

\* Going back to the p-th savepoint, and releasing it, find its mark.
LEMMA TalliesKept ==
    ASSUME NEW len, NEW mk \in Seq(PlaceType), NEW ws, NEW sv \in Seq(SaveType),
           Tallies(len, mk, ws, sv), NEW p \in 1..Len(sv), NEW c \in 0..Len(mk),
           NEW r \in 0..Len(sv), c >= LastNamed(mk, sv[p].name) - 1, r <= p,
           r = p => c = LastNamed(mk, sv[p].name)
    PROVE  /\ Len(SubSeq(sv, 1, r)) = r
           /\ \A i \in 1..r :
                /\ SubSeq(sv, 1, r)[i] = sv[i] /\ i \in 1..Len(sv)
                /\ LastNamed(SubSeq(mk, 1, c), sv[i].name) = LastNamed(mk, sv[i].name)
                /\ LenAt(SubSeq(mk, 1, c), sv[i].name) = LenAt(mk, sv[i].name)
<1>1. /\ Len(SubSeq(sv, 1, r)) = r /\ r \in Nat /\ Len(sv) \in Nat
      /\ \A i \in 1..r : SubSeq(sv, 1, r)[i] = sv[i]
  BY PrefixIs
<1>2. ASSUME NEW i \in 1..r
      PROVE  /\ i \in 1..Len(sv)
             /\ LastNamed(SubSeq(mk, 1, c), sv[i].name) = LastNamed(mk, sv[i].name)
             /\ LenAt(SubSeq(mk, 1, c), sv[i].name) = LenAt(mk, sv[i].name)
  <2>1. i \in 1..Len(sv) /\ (i < p \/ (i = p /\ r = p))
    BY <1>1
  <2>2. \A k : LastNamed(mk, k) \in 0..Len(mk)
    <3> SUFFICES ASSUME NEW k PROVE LastNamed(mk, k) \in 0..Len(mk)
      OBVIOUS
    <3>1. IsLast(mk, k, LastNamed(mk, k))
      BY LastIs
    <3> QED BY <3>1 DEF IsLast
  <2>3. i < p => LastNamed(mk, sv[i].name) < LastNamed(mk, sv[p].name)
    BY <2>1 DEF Tallies
  <2>4. LastNamed(mk, sv[i].name) <= c
    <3>1. PICK u, v : /\ u = LastNamed(mk, sv[i].name) /\ v = LastNamed(mk, sv[p].name)
                      /\ u \in Nat /\ v \in Nat
      BY <2>2
    <3>2. CASE i < p
      <4>1. u < v /\ c >= v - 1 /\ c \in Nat
        BY <2>3, <3>1, <3>2
      <4> HIDE <2>1, <2>2, <2>3
      <4>2. u <= c
        BY <3>1, <4>1
      <4> QED BY <3>1, <4>2
    <3>3. CASE i = p /\ r = p
      BY <3>1, <3>3
    <3> QED BY <2>1, <3>2, <3>3
  <2> QED BY <2>1, <2>4, LastOfPrefix, LenAtPrefix
<1> QED BY <1>1, <1>2

\* ROLLBACK TO the p-th savepoint, and RELEASE of it.
LEMMA TalliesBack ==
    ASSUME NEW len, NEW mk \in Seq(PlaceType), NEW ws \in Seq(Log), NEW sv \in Seq(SaveType),
           Tallies(len, mk, ws, sv), NEW p \in 1..Len(sv),
           \A i \in 1..Len(sv) : sv[i].len <= Len(ws),
           \A i, j \in 1..Len(sv) : i < j => sv[i].len <= sv[j].len
    PROVE  LET at == LastNamed(mk, sv[p].name)
           IN  /\ at \in 1..Len(mk)
               /\ Tallies(mk[at].len, SubSeq(mk, 1, at), SubSeq(ws, 1, sv[p].len), SubSeq(sv, 1, p))
               /\ Tallies(len, SubSeq(mk, 1, at - 1), ws, SubSeq(sv, 1, p - 1))
<1> DEFINE at == LastNamed(mk, sv[p].name)
<1>1. at \in 1..Len(mk) /\ Len(mk) \in Nat
  <2>1. IsLast(mk, sv[p].name, at)
    BY LastIs
  <2>2. at # 0
    BY DEF Tallies
  <2> QED BY <2>1, <2>2 DEF IsLast
<1>2. mk[at].len = NotifiesIn(SubSeq(ws, 1, sv[p].len))
  BY <1>1 DEF Tallies, LenAt
<1> HIDE DEF at
<1>3. at = LastNamed(mk, sv[p].name)
  BY DEF at
<1>4. at \in 0..Len(mk) /\ at - 1 \in 0..Len(mk) /\ at >= at - 1 /\ at - 1 >= at - 1
  BY <1>1
<1>5. p \in Nat /\ p \in 0..Len(sv) /\ p - 1 \in 0..Len(sv) /\ p - 1 <= p /\ p - 1 # p /\ p <= p
  OBVIOUS
<1>6. /\ Len(SubSeq(sv, 1, p)) = p
      /\ \A i \in 1..p : /\ SubSeq(sv, 1, p)[i] = sv[i] /\ i \in 1..Len(sv)
                         /\ LastNamed(SubSeq(mk, 1, at), sv[i].name) = LastNamed(mk, sv[i].name)
                         /\ LenAt(SubSeq(mk, 1, at), sv[i].name) = LenAt(mk, sv[i].name)
  BY <1>3, <1>4, <1>5, TalliesKept
<1>7. /\ Len(SubSeq(sv, 1, p - 1)) = p - 1
      /\ \A i \in 1..(p - 1) :
            /\ SubSeq(sv, 1, p - 1)[i] = sv[i] /\ i \in 1..Len(sv)
            /\ LastNamed(SubSeq(mk, 1, at - 1), sv[i].name) = LastNamed(mk, sv[i].name)
            /\ LenAt(SubSeq(mk, 1, at - 1), sv[i].name) = LenAt(mk, sv[i].name)
  BY <1>3, <1>4, <1>5, TalliesKept
<1>8. Tallies(len, SubSeq(mk, 1, at - 1), ws, SubSeq(sv, 1, p - 1))
  <2> DEFINE y == SubSeq(sv, 1, p - 1)
             a == SubSeq(mk, 1, at - 1)
             d == p - 1
  <2>1. Len(y) = d /\ \A i \in 1..d :
            /\ y[i] = sv[i] /\ i \in 1..Len(sv)
            /\ LastNamed(a, sv[i].name) = LastNamed(mk, sv[i].name)
            /\ LenAt(a, sv[i].name) = LenAt(mk, sv[i].name)
    BY <1>7
  <2> HIDE DEF y, a, d
  <2>2. Tallies(len, a, ws, y)
    BY <2>1 DEF Tallies
  <2> QED BY <2>2 DEF y, a
<1>9. Tallies(mk[at].len, SubSeq(mk, 1, at), SubSeq(ws, 1, sv[p].len), SubSeq(sv, 1, p))
  <2> DEFINE y == SubSeq(sv, 1, p)
             a == SubSeq(mk, 1, at)
             v == SubSeq(ws, 1, sv[p].len)
  <2>1. Len(y) = p /\ \A i \in 1..p :
            /\ y[i] = sv[i] /\ i \in 1..Len(sv)
            /\ LastNamed(a, sv[i].name) = LastNamed(mk, sv[i].name)
            /\ LenAt(a, sv[i].name) = LenAt(mk, sv[i].name)
    BY <1>6
  <2>2. ASSUME NEW i \in 1..p
        PROVE  SubSeq(v, 1, sv[i].len) = SubSeq(ws, 1, sv[i].len)
    <3>1. i \in 1..Len(sv) /\ (i < p \/ i = p)
      BY <2>1
    <3>2. sv[i].len \in Nat /\ sv[p].len \in Nat /\ sv[p].len <= Len(ws)
      BY <3>1, SaveFields
    <3>3. sv[i].len <= sv[p].len
      BY <3>1, <3>2
    <3>4. sv[i].len \in 0..sv[p].len /\ sv[p].len \in 0..Len(ws)
      BY <3>2, <3>3
    <3> QED BY <3>4, PrefixPrefix
  <2>3. mk[at].len = NotifiesIn(v)
    BY <1>2, <1>3
  <2> HIDE DEF y, a, v
  <2>4. ASSUME NEW i \in 1..Len(y)
        PROVE  /\ LastNamed(a, y[i].name) # 0
               /\ LenAt(a, y[i].name) = NotifiesIn(SubSeq(v, 1, y[i].len))
    BY <2>1, <2>2 DEF Tallies
  <2>5. \A i, j \in 1..Len(y) : i < j => LastNamed(a, y[i].name) < LastNamed(a, y[j].name)
    BY <2>1 DEF Tallies
  <2>6. Tallies(mk[at].len, a, v, y)
    BY <2>3, <2>4, <2>5 DEF Tallies
  <2> QED BY <2>6 DEF y, a, v
<1> QED BY <1>1, <1>8, <1>9 DEF at

\* A write behind every savepoint; only a NOTIFY is queued.
LEMMA TalliesAppend ==
    ASSUME NEW len \in Nat, NEW mk, NEW ws \in Seq(Log), NEW sv \in Seq(SaveType),
           Tallies(len, mk, ws, sv), \A i \in 1..Len(sv) : sv[i].len <= Len(ws), NEW w \in Log
    PROVE  /\ w = Notified => Tallies(len + 1, mk, Append(ws, w), sv)
           /\ w # Notified => Tallies(len, mk, Append(ws, w), sv)
<1>1. PICK v : v = Append(ws, w)
  OBVIOUS
<1>2. ASSUME NEW i \in 1..Len(sv)
      PROVE  SubSeq(v, 1, sv[i].len) = SubSeq(ws, 1, sv[i].len)
  <2>1. sv[i].len \in 0..Len(ws)
    BY SaveFields
  <2> QED BY <1>1, <2>1, AppendPrefix
<1>3. /\ w = Notified => NotifiesIn(v) = len + 1
      /\ w # Notified => NotifiesIn(v) = len
  <2>1. Times(ws, Notified) = len
    BY NotifiesAre DEF Tallies
  <2>2. Times(v, Notified) = Times(ws, Notified) + (IF w = Notified THEN 1 ELSE 0)
    BY <1>1, TimesAppend
  <2> QED BY <2>1, <2>2, NotifiesAre
<1> QED BY <1>1, <1>2, <1>3 DEF Tallies

LEMMA TalliesNone == Tallies(0, <<>>, <<>>, <<>>)
<1>1. NotifiesIn(<<>>) = 0
  BY NotifiesAre, TimesNone
<1>2. 1..Len(<<>>) = {}
  OBVIOUS
<1> QED BY <1>1, <1>2 DEF Tallies

LEMMA ClimbMore ==
    ASSUME NEW ms, NEW len \in Nat, Climb(ms, len)
    PROVE  Climb(ms, len + 1)
<1>1. \A i \in DOMAIN ms : ms[i].len \in 0..(len + 1)
  BY DEF Climb
<1> QED BY <1>1 DEF Climb

LEMMA ClimbNone == Climb(<<>>, 0)
BY DEF Climb

-----------------------------------------------------------------------------
(* The statements of a transaction, on the three stores                    *)

LEMMA FollowsIs ==
    ASSUME NEW x, NEW q, NEW clean, Follows(x, q, clean)
    PROVE  /\ Sound(x) /\ Own(x) /\ x \in TxnType /\ x.writes \in Seq(Log) /\ x.saves \in Seq(SaveType)
           /\ q \in NotifyType /\ q.queued \in Nat /\ q.marks \in Seq(PlaceType)
           /\ Climb(q.marks, q.queued)
           /\ \A i \in 1..Len(x.saves) : x.saves[i].len <= Len(x.writes)
           /\ \A i, j \in 1..Len(x.saves) : i < j => x.saves[i].len <= x.saves[j].len
<1>1. Sound(x) /\ Own(x) /\ q \in NotifyType /\ Climb(q.marks, q.queued)
  BY DEF Follows
<1>2. x \in TxnType
  BY <1>1 DEF Sound
<1>3. x.writes \in Seq(Log) /\ x.saves \in Seq(SaveType)
  BY <1>2, TxnFields DEF Log
<1>4. \A i \in 1..Len(x.saves) : x.saves[i].len <= Len(x.writes)
  BY <1>1 DEF Sound
<1>5. \A i, j \in 1..Len(x.saves) : i < j => x.saves[i].len <= x.saves[j].len
  BY <1>1 DEF Sound, InOrder
<1> QED BY <1>1, <1>2, <1>3, <1>4, <1>5, NotifyFields

LEMMA QueueIs ==
    ASSUME NEW len \in Nat, NEW mk \in Seq(PlaceType)
    PROVE  LET q == [queued |-> len, marks |-> mk]
           IN  q \in NotifyType /\ q.queued = len /\ q.marks = mk
BY DEF NotifyType, PlaceType

LEMMA SavepointFollows ==
    ASSUME NEW x, NEW q, NEW clean, Follows(x, q, clean), NEW n \in SaveName
    PROVE  Follows(Savepoint(x, n),
                   [q EXCEPT !.marks = Append(@, [name |-> n, len |-> q.queued])], clean)
<1>1. n \in Names
  BY DEF Names
<1>2. PICK y : y = Savepoint(x, n)
  OBVIOUS
<1>3. PICK len \in Nat, mk \in Seq(PlaceType) : len = q.queued /\ mk = q.marks /\ Climb(mk, len)
  BY FollowsIs
<1>4. PICK m \in PlaceType : m = [name |-> n, len |-> len] /\ m.len = len
  <2>1. [name |-> n, len |-> len] \in PlaceType
    BY DEF PlaceType
  <2> QED BY <2>1
<1>5. PICK a \in Seq(PlaceType) : a = Append(mk, m)
  <2>1. Append(mk, m) \in Seq(PlaceType)
    BY AppendIs
  <2> QED BY <2>1
<1>6. PICK q1 : q1 = [queued |-> len, marks |-> a]
  OBVIOUS
<1>7. [q EXCEPT !.marks = Append(@, [name |-> n, len |-> q.queued])] = q1
  <2>1. q \in NotifyType
    BY FollowsIs
  <2>2. q = [queued |-> len, marks |-> mk]
    BY <1>3, <2>1 DEF NotifyType
  <2>3. [name |-> n, len |-> q.queued] = m
    BY <1>3, <1>4
  <2>4. Append(q.marks, m) = a
    BY <1>3, <1>5
  <2>5. [q EXCEPT !.marks = a] = [queued |-> len, marks |-> a]
    BY <2>2
  <2> QED BY <1>6, <2>3, <2>4, <2>5
<1>8. q1 \in NotifyType /\ q1.queued = len /\ q1.marks = a
  BY <1>6, QueueIs
<1>9. Climb(a, len)
  BY <1>3, <1>4, <1>5, ClimbAppend
<1>10. Sound(y)
  BY <1>1, <1>2, FollowsIs, SavepointSound
<1>11. PICK s \in SaveType : /\ s = [name |-> n, len |-> Len(x.writes)] /\ s.name = n
                             /\ y.writes = x.writes /\ Joined(y.saves, x.saves, n, s)
  <2>1. x \in TxnType /\ x.saves \in Seq(SaveType)
    BY FollowsIs
  <2>2. PICK s \in SaveType :
          /\ s = [name |-> n, len |-> Len(x.writes)] /\ s.name = n /\ y.writes = x.writes
          /\ y.saves = Append(Pick(x.saves, {i \in 1..Len(x.saves) : x.saves[i].name # n}), s)
    BY <1>1, <1>2, <2>1, SavepointIs
  <2>3. Joined(Append(Pick(x.saves, {i \in 1..Len(x.saves) : x.saves[i].name # n}), s), x.saves, n, s)
    BY <2>1, JoinedIs
  <2> QED BY <2>2, <2>3
<1>12. Own(y)
  <2> SUFFICES ASSUME NEW i \in 1..Len(y.saves) PROVE y.saves[i].name \in SaveName
    BY DEF Own
  <2>1. Len(y.saves) \in Nat \ {0}
    BY <1>11 DEF Joined
  <2>2. i = Len(y.saves) \/ i \in 1..(Len(y.saves) - 1)
    BY <2>1
  <2>3. CASE i = Len(y.saves)
    BY <1>11, <2>3 DEF Joined
  <2>4. CASE i \in 1..(Len(y.saves) - 1)
    <3>1. PICK j \in 1..Len(x.saves) : y.saves[i] = x.saves[j]
      BY <1>11, <2>4 DEF Joined
    <3>2. Own(x)
      BY FollowsIs
    <3> QED BY <3>1, <3>2 DEF Own
  <2> QED BY <2>2, <2>3, <2>4
<1>13. ASSUME clean PROVE Counts(q1, y)
  <2>1. Tallies(len, mk, x.writes, x.saves) /\ x.writes \in Seq(Log)
    BY <1>3, <1>13, FollowsIs DEF Follows, Counts
  <2>2. Joined(y.saves, x.saves, n, [name |-> n, len |-> Len(x.writes)])
    BY <1>11
  <2>3. Tallies(len, Append(mk, [name |-> n, len |-> len]), x.writes, y.saves)
    BY <2>1, <2>2, TalliesSavepoint
  <2> QED BY <1>4, <1>5, <1>8, <1>11, <2>3 DEF Counts
<1>14. Follows(y, q1, clean)
  BY <1>8, <1>9, <1>10, <1>12, <1>13 DEF Follows
<1> QED BY <1>2, <1>7, <1>14

\* What ROLLBACK TO n and RELEASE n make of the NOTIFY queue.
WentBack(q, n) ==
    LET at == LastNamed(q.marks, n) IN
    IF at = 0 THEN q ELSE [queued |-> q.marks[at].len, marks |-> SubSeq(q.marks, 1, at)]
LetGo(q, n) ==
    LET at == LastNamed(q.marks, n) IN
    IF at = 0 THEN q ELSE [q EXCEPT !.marks = SubSeq(@, 1, at - 1)]

LEMMA CutQueue ==
    ASSUME NEW q \in NotifyType, Climb(q.marks, q.queued), NEW n
    PROVE  /\ WentBack(q, n) \in NotifyType /\ LetGo(q, n) \in NotifyType
           /\ Climb(WentBack(q, n).marks, WentBack(q, n).queued)
           /\ Climb(LetGo(q, n).marks, LetGo(q, n).queued)
           /\ LastNamed(q.marks, n) # 0 =>
                /\ WentBack(q, n).queued = q.marks[LastNamed(q.marks, n)].len
                /\ WentBack(q, n).marks = SubSeq(q.marks, 1, LastNamed(q.marks, n))
                /\ LetGo(q, n).queued = q.queued
                /\ LetGo(q, n).marks = SubSeq(q.marks, 1, LastNamed(q.marks, n) - 1)
<1>1. PICK len \in Nat, mk \in Seq(PlaceType) : len = q.queued /\ mk = q.marks /\ Climb(mk, len)
  BY NotifyFields
<1>2. PICK at : at = LastNamed(mk, n) /\ at \in 0..Len(mk) /\ Len(mk) \in Nat
  BY <1>1, LenAtIs
<1>3. CASE at = 0
  <2>1. WentBack(q, n) = q /\ LetGo(q, n) = q
    BY <1>1, <1>2, <1>3 DEF WentBack, LetGo
  <2> QED BY <1>1, <1>2, <1>3, <2>1
<1>4. CASE at # 0
  <2>1. at \in 1..Len(mk) /\ at - 1 \in 0..Len(mk)
    BY <1>2, <1>4
  <2>2. PICK a \in Seq(PlaceType), b \in Seq(PlaceType) : a = SubSeq(mk, 1, at) /\ b = SubSeq(mk, 1, at - 1)
    BY <1>2, <2>1, PrefixIs
  <2>3. mk[at].len \in Nat
    <3>1. mk[at] \in PlaceType
      BY <2>1
    <3> QED BY <3>1 DEF PlaceType
  <2>4. /\ WentBack(q, n) = [queued |-> mk[at].len, marks |-> a]
        /\ LetGo(q, n) = [queued |-> len, marks |-> b]
    BY <1>1, <1>2, <1>4, <2>2 DEF WentBack, LetGo, NotifyType
  <2>5. Climb(a, mk[at].len) /\ Climb(b, len)
    BY <1>1, <1>2, <1>4, <2>1, <2>2, ClimbCut
  <2>6. /\ WentBack(q, n) \in NotifyType /\ LetGo(q, n) \in NotifyType
        /\ WentBack(q, n).queued = mk[at].len /\ WentBack(q, n).marks = a
        /\ LetGo(q, n).queued = len /\ LetGo(q, n).marks = b
    BY <2>3, <2>4, QueueIs
  <2> QED BY <1>1, <1>2, <2>2, <2>5, <2>6
<1> QED BY <1>3, <1>4

LEMMA BackFollows ==
    ASSUME NEW x, NEW q, NEW clean, Follows(x, q, clean), NEW n, HasSave(x, n)
    PROVE  /\ Follows(RolledBackTo(x, n), WentBack(q, n), clean)
           /\ Follows(Released(x, n), LetGo(q, n), clean)
<1>1. PICK p \in 1..Len(x.saves) : p = Saved(x, n) /\ x.saves[p].name = n
  BY FollowsIs, SavedIs
<1>2. PICK y, z : y = RolledBackTo(x, n) /\ z = Released(x, n)
  OBVIOUS
<1>3. Sound(y) /\ Sound(z)
  BY <1>2, FollowsIs, RolledBackSound, ReleasedSound
<1>4. PICK sv \in Seq(SaveType) : sv = x.saves
  BY FollowsIs
<1>5. y.writes = SubSeq(x.writes, 1, sv[p].len) /\ y.saves = SubSeq(sv, 1, p)
  <2>1. BackTo(RolledBackTo(x, n), x, Saved(x, n), Marked(x, n))
    BY FollowsIs, BackToIs
  <2> QED BY <1>1, <1>2, <1>4, <2>1 DEF BackTo
<1>6. z.writes = x.writes /\ z.saves = SubSeq(sv, 1, p - 1)
  <2>1. Without(Released(x, n), x, Saved(x, n))
    BY FollowsIs, WithoutIs
  <2> QED BY <1>1, <1>2, <1>4, <2>1 DEF Without
<1>7. /\ Len(y.saves) = p /\ Len(z.saves) = p - 1
      /\ \A i \in 1..p : y.saves[i] = sv[i] /\ i \in 1..Len(sv)
      /\ \A i \in 1..(p - 1) : z.saves[i] = sv[i] /\ i \in 1..Len(sv)
  <2>1. p \in 0..Len(sv) /\ p - 1 \in 0..Len(sv)
    BY <1>4
  <2>2. /\ Len(SubSeq(sv, 1, p)) = p /\ \A i \in 1..p : SubSeq(sv, 1, p)[i] = sv[i]
    BY <2>1, PrefixIs
  <2>3. /\ Len(SubSeq(sv, 1, p - 1)) = p - 1
        /\ \A i \in 1..(p - 1) : SubSeq(sv, 1, p - 1)[i] = sv[i]
    BY <2>1, PrefixIs
  <2>4. \A i \in 1..p : i \in 1..Len(sv)
    BY <2>1
  <2>5. \A i \in 1..(p - 1) : i \in 1..Len(sv)
    BY <2>1
  <2> QED BY <1>5, <1>6, <2>2, <2>3, <2>4, <2>5
<1>8. Own(y) /\ Own(z)
  <2>1. \A i \in 1..Len(sv) : sv[i].name \in SaveName
    BY <1>4, FollowsIs DEF Own
  <2> QED BY <1>7, <2>1 DEF Own
<1>9. /\ WentBack(q, n) \in NotifyType /\ Climb(WentBack(q, n).marks, WentBack(q, n).queued)
      /\ LetGo(q, n) \in NotifyType /\ Climb(LetGo(q, n).marks, LetGo(q, n).queued)
  BY FollowsIs, CutQueue
<1>10. ASSUME clean PROVE Counts(WentBack(q, n), y) /\ Counts(LetGo(q, n), z)
  <2>1. PICK mk \in Seq(PlaceType) : mk = q.marks
    BY FollowsIs
  <2>2. Tallies(q.queued, mk, x.writes, sv)
    BY <1>4, <1>10, <2>1 DEF Follows, Counts
  <2>3. PICK at : at = LastNamed(mk, sv[p].name)
    OBVIOUS
  <2>4. /\ \A i \in 1..Len(sv) : sv[i].len <= Len(x.writes)
        /\ \A i, j \in 1..Len(sv) : i < j => sv[i].len <= sv[j].len
        /\ x.writes \in Seq(Log) /\ p \in 1..Len(sv)
    BY <1>4, FollowsIs
  <2>5. /\ at \in 1..Len(mk)
        /\ Tallies(mk[at].len, SubSeq(mk, 1, at), SubSeq(x.writes, 1, sv[p].len), SubSeq(sv, 1, p))
        /\ Tallies(q.queued, SubSeq(mk, 1, at - 1), x.writes, SubSeq(sv, 1, p - 1))
    BY <2>2, <2>3, <2>4, TalliesBack
  <2>6. at = LastNamed(q.marks, n) /\ at # 0
    BY <1>1, <1>4, <2>1, <2>3, <2>5
  <2>7. /\ WentBack(q, n).queued = mk[at].len /\ WentBack(q, n).marks = SubSeq(mk, 1, at)
        /\ LetGo(q, n).queued = q.queued /\ LetGo(q, n).marks = SubSeq(mk, 1, at - 1)
    BY <2>1, <2>6, FollowsIs, CutQueue
  <2> QED BY <1>5, <1>6, <2>5, <2>7 DEF Counts
<1>11. Follows(y, WentBack(q, n), clean) /\ Follows(z, LetGo(q, n), clean)
  BY <1>3, <1>8, <1>9, <1>10 DEF Follows
<1> QED BY <1>2, <1>11

LEMMA SameFollows ==
    ASSUME NEW x, NEW q, NEW clean, Follows(x, q, clean), NEW y, Sound(y), y.writes = x.writes,
           y.saves = x.saves
    PROVE  Follows(y, q, clean)
BY DEF Follows, Own, Counts

LEMMA WriteFollows ==
    ASSUME NEW x, NEW q, NEW clean, Follows(x, q, clean), NEW y, Sound(y), NEW w \in Row,
           y.writes = Append(x.writes, w), y.saves = x.saves
    PROVE  Follows(y, q, clean)
<1>1. w # Notified /\ w \in Log
  BY DEF Row, Notified, Log
<1>2. ASSUME clean PROVE Counts(q, y)
  <2>1. Tallies(q.queued, q.marks, x.writes, x.saves)
    BY <1>2 DEF Follows, Counts
  <2>2. Tallies(q.queued, q.marks, Append(x.writes, w), x.saves)
    BY <1>1, <2>1, FollowsIs, TalliesAppend
  <2> QED BY <2>2 DEF Counts
<1> QED BY <1>2 DEF Follows, Own

LEMMA NotifyFollows ==
    ASSUME NEW x, NEW q, NEW clean, Follows(x, q, clean)
    PROVE  Follows([x EXCEPT !.writes = Append(@, Notified)], [q EXCEPT !.queued = @ + 1], clean)
<1>1. PICK y : y = [x EXCEPT !.writes = Append(@, Notified)]
  OBVIOUS
<1>2. Extended(y, x, Notified) /\ Sound(y)
  BY <1>1, FollowsIs, NotifiedIs, ExtendedSound
<1>3. y.writes = Append(x.writes, Notified) /\ y.saves = x.saves
  BY <1>2 DEF Extended
<1>4. PICK len \in Nat, mk \in Seq(PlaceType) : len = q.queued /\ mk = q.marks /\ Climb(mk, len)
  BY FollowsIs
<1>5. PICK q1 : q1 = [queued |-> len + 1, marks |-> mk]
  OBVIOUS
<1>6. [q EXCEPT !.queued = @ + 1] = q1
  <2>1. q \in NotifyType
    BY FollowsIs
  <2>2. q = [queued |-> len, marks |-> mk]
    BY <1>4, <2>1 DEF NotifyType
  <2> QED BY <1>5, <2>2
<1>7. q1 \in NotifyType /\ q1.queued = len + 1 /\ q1.marks = mk
  BY <1>5, QueueIs
<1>8. Climb(mk, len + 1)
  BY <1>4, ClimbMore
<1>9. ASSUME clean PROVE Counts(q1, y)
  <2>1. Tallies(len, mk, x.writes, x.saves)
    BY <1>4, <1>9 DEF Follows, Counts
  <2>2. Notified \in Log
    BY DEF Log
  <2>3. Tallies(len + 1, mk, Append(x.writes, Notified), x.saves)
    BY <2>1, <2>2, FollowsIs, TalliesAppend
  <2> QED BY <1>3, <1>7, <2>3 DEF Counts
<1>10. Own(y)
  BY <1>3, FollowsIs DEF Own
<1>11. Follows(y, q1, clean)
  BY <1>2, <1>7, <1>8, <1>9, <1>10 DEF Follows
<1> QED BY <1>1, <1>6, <1>11

LEMMA NoTxnFollows ==
    /\ Sound(NoTxn) /\ Own(NoTxn) /\ NoNotify \in NotifyType /\ Climb(NoNotify.marks, NoNotify.queued)
    /\ Counts(NoNotify, NoTxn)
<1>1. NoTxn.writes = <<>> /\ NoTxn.saves = <<>> /\ NoTxn.queue = NoQueue
  BY DEF NoTxn
<1>2. NoTxn \in TxnType
  BY <1>1, NoQueueIs DEF NoTxn, TxnType
<1>3. Len(<<>>) = 0 /\ 1..0 = {}
  OBVIOUS
<1>4. Climb(<<>>, 0)
  BY ClimbNone
<1>5. Sound(NoTxn)
  BY <1>1, <1>2, <1>3, <1>4, NoQueueIs DEF Sound
<1>6. Own(NoTxn)
  BY <1>1, <1>3 DEF Own
<1>7. NoNotify \in NotifyType /\ NoNotify.queued = 0 /\ NoNotify.marks = <<>>
  BY DEF NoNotify, NotifyType
<1>8. Counts(NoNotify, NoTxn)
  BY <1>1, <1>7, TalliesNone DEF Counts
<1> QED BY <1>4, <1>5, <1>6, <1>7, <1>8

\* The transaction ended, and its NOTIFY queue was emptied or was empty.
LEMMA NoTxnClean ==
    ASSUME NEW q, NEW clean, q \in NotifyType, Climb(q.marks, q.queued), clean => q = NoNotify
    PROVE  Follows(NoTxn, q, clean)
BY NoTxnFollows DEF Follows

-----------------------------------------------------------------------------
(* The statements of a transaction, on the checks it owes                  *)

LEMMA RowedIs ==
    ASSUME NEW rs, NEW x, NEW k, NEW f, Rowed(rs, x, k, f), x \in TxnType
    PROVE  /\ rs \in Counted /\ rs \in [Con \X Key -> 0..MaxRows] /\ Countable(rs, x.writes)
           /\ x.writes \in Seq(Log) /\ k \in 0..Len(x.writes) /\ Len(x.writes) \in Nat /\ k \in Nat
<1>1. rs \in [Con \X Key -> 0..MaxRows] /\ Countable(rs, x.writes) /\ k \in 0..Len(x.writes)
  BY DEF Rowed
<1>2. rs \in Counted
  BY <1>1, CountableNone
<1> QED BY <1>1, <1>2, TxnFields DEF Log

\* A statement that leaves the writes as they were.
LEMMA SameRowed ==
    ASSUME NEW rs, NEW x, NEW k, NEW f, Rowed(rs, x, k, f), NEW y, y.writes = x.writes,
           NEW k1 \in 0..Len(x.writes),
           OwesNow(rs, x) /\ OwedAt(rs, x, k) => OwesNow(rs, y) /\ OwedAt(rs, y, k1)
    PROVE  Rowed(rs, y, k1, f)
BY DEF Rowed

\* A statement that writes.
LEMMA AppendRowed ==
    ASSUME NEW rs, NEW x \in TxnType, NEW k, NEW f, Rowed(rs, x, k, f), NEW y, NEW w \in Log,
           y.writes = Append(x.writes, w),
           \/ w = Notified
           \/ /\ w \in Row
              /\ w.op = "delete" => Holding(rs, x.writes, w.con, w.key) > 0
              /\ w.op # "delete" => Holding(rs, x.writes, w.con, w.key) < MaxRows,
           OwesNow(rs, x) /\ OwedAt(rs, x, k) => OwesNow(rs, y) /\ OwedAt(rs, y, k)
    PROVE  Rowed(rs, y, k, f)
<1>1. Countable(rs, y.writes)
  BY RowedIs, CountableAppend
<1>2. k \in 0..Len(y.writes)
  <2>1. Len(y.writes) = Len(x.writes) + 1 /\ Len(x.writes) \in Nat /\ k \in 0..Len(x.writes)
    BY RowedIs, AppendIs
  <2> QED BY <2>1
<1> QED BY <1>1, <1>2 DEF Rowed

LEMMA UncheckedNone ==
    ASSUME NEW x \in TxnType, NEW rs
    PROVE  Unchecked(rs, x) = {} <=> OwesNow(rs, x)
<1>1. PICK es \in Seq(Entry) : es = x.queue.entries
  BY TxnFields
<1>2. DOMAIN es = 1..Len(es)
  OBVIOUS
<1>3. Range(es) = {es[j] : j \in 1..Len(es)}
  BY <1>2 DEF Range
<1>4. Unchecked(rs, x) =
        {ck \in Broken(rs, x.writes) : ~\E e \in Range(es) : Asks(e, ck)}
  BY <1>1 DEF Unchecked, Asks
<1>5. \A ck : (\E e \in Range(es) : Asks(e, ck)) <=> \E j \in 1..Len(es) : Asks(es[j], ck)
  BY <1>3
<1>6. OwesNow(rs, x) <=> \A ck \in Broken(rs, x.writes) : \E j \in 1..Len(es) : Asks(es[j], ck)
  BY <1>1 DEF OwesNow, Covers
<1> QED BY <1>4, <1>5, <1>6

LEMMA BackRowed ==
    ASSUME NEW rs, NEW x, Sound(x), NEW k, NEW f, Rowed(rs, x, k, f), NEW n, HasSave(x, n)
    PROVE  LET y == RolledBackTo(x, n)
           IN  Rowed(rs, y, IF k > Len(y.writes) THEN Len(y.writes) ELSE k,
                     f \/ (k > Len(y.writes) /\ Unchecked(rs, y) # {}))
<1>0. x \in TxnType
  BY DEF Sound
<1>1. PICK p \in 1..Len(x.saves) : p = Saved(x, n)
  BY <1>0, SavedIs
<1>2. PICK y : y = RolledBackTo(x, n)
  OBVIOUS
<1>3. PICK len \in 0..Len(x.writes) : len = x.saves[p].len /\ Len(y.writes) = len
  <2>1. x.saves[p].len \in Nat
    BY <1>0, TxnFields, SaveFields
  <2>2. x.saves[p].len <= Len(x.writes) /\ Len(x.writes) \in Nat
    BY <1>0, TxnFields DEF Sound
  <2>3. Len(y.writes) = x.saves[p].len
    BY <1>1, <1>2, RolledBackSound
  <2> QED BY <2>1, <2>2, <2>3
<1>4. y \in TxnType /\ y.writes = SubSeq(x.writes, 1, len)
  <2>1. BackTo(RolledBackTo(x, n), x, Saved(x, n), Marked(x, n))
    BY BackToIs
  <2> QED BY <1>1, <1>2, <1>3, <2>1 DEF BackTo
<1>5. Countable(rs, y.writes)
  BY <1>0, <1>4, RowedIs, CountableCut
<1>6. PICK k1 : k1 = IF k > len THEN len ELSE k
  OBVIOUS
<1>7. k1 \in 0..Len(y.writes) /\ k \in Nat /\ len \in Nat
  BY <1>0, <1>3, <1>6, RowedIs
<1>8. ASSUME ~f, ~(k > len /\ Unchecked(rs, y) # {})
      PROVE  OwesNow(rs, y) /\ OwedAt(rs, y, k1)
  <2>1. OwedAt(rs, x, k)
    BY <1>8 DEF Rowed
  <2>2. /\ OwedAt(rs, y, k)
        /\ len >= k => OwesNow(rs, y)
        /\ OwesNow(rs, y) => OwedAt(rs, y, len)
    BY <1>1, <1>2, <1>3, <2>1, RolledBackOwed
  <2>3. CASE k > len
    <3>1. OwesNow(rs, y)
      BY <1>4, <1>8, <2>3, UncheckedNone
    <3> QED BY <1>6, <2>2, <2>3, <3>1
  <2>4. CASE ~(k > len)
    <3>1. len >= k
      BY <1>7, <2>4
    <3> QED BY <1>6, <2>2, <2>4, <3>1
  <2> QED BY <2>3, <2>4
<1>9. Rowed(rs, y, k1, f \/ (k > len /\ Unchecked(rs, y) # {}))
  BY <1>5, <1>7, <1>8 DEF Rowed
<1> QED BY <1>2, <1>3, <1>6, <1>9

\* Nothing is open: the committed rows are all there is.
LEMMA RowedNone ==
    ASSUME NEW rs \in [Con \X Key -> 0..MaxRows], NEW f,
           ~f => \A ck \in Con \X Key : rs[ck] <= 1
    PROVE  Rowed(rs, NoTxn, 0, f)
<1>1. NoTxn.writes = <<>> /\ NoTxn.saves = <<>> /\ Len(<<>>) = 0 /\ 1..0 = {} /\ 0 \in 0..0
  BY DEF NoTxn
<1>2. Countable(rs, <<>>) /\ rs \in Counted
  BY CountableNone
<1>3. OwedAt(rs, NoTxn, 0)
  BY <1>1 DEF OwedAt
<1>4. ASSUME ~f, NEW ck \in Broken(rs, <<>>) PROVE FALSE
  <2>1. PICK c \in Con, key \in Key : ck = <<c, key>> /\ Holding(rs, <<>>, c, key) > 1
    BY DEF Broken
  <2>2. rs[<<c, key>>] <= 1 /\ rs[<<c, key>>] \in Nat
    BY <1>2, <1>4 DEF Counted
  <2>3. Holding(rs, <<>>, c, key) = rs[<<c, key>>]
    BY <1>2, HoldingNone
  <2> QED BY <2>1, <2>2, <2>3
<1>5. ~f => OwesNow(rs, NoTxn)
  BY <1>1, <1>4 DEF OwesNow, Covers
<1> QED BY <1>1, <1>2, <1>3, <1>5 DEF Rowed

\* A commit that passed its checks leaves no key held twice.
LEMMA CommitRowed ==
    ASSUME NEW rs, NEW x \in TxnType, Countable(rs, x.writes)
    PROVE  LET rs1 == [ck \in Con \X Key |-> Holding(rs, x.writes, ck[1], ck[2])]
           IN  /\ rs1 \in [Con \X Key -> 0..MaxRows]
               /\ OwesNow(rs, x) /\ Passes(rs, x.writes, x.queue.entries) =>
                     \A ck \in Con \X Key : rs1[ck] <= 1
<1>1. PICK ws \in Seq(Log), es \in Seq(Entry) : ws = x.writes /\ es = x.queue.entries
  BY TxnFields DEF Log
<1> DEFINE rs1 == [ck \in Con \X Key |-> Holding(rs, ws, ck[1], ck[2])]
<1>2. ASSUME NEW ck \in Con \X Key PROVE Holding(rs, ws, ck[1], ck[2]) \in 0..MaxRows
  <2>1. ck[1] \in Con /\ ck[2] \in Key
    OBVIOUS
  <2> QED BY <1>1, <2>1, CountableNow
<1>3. rs1 \in [Con \X Key -> 0..MaxRows]
  BY <1>2
<1>4. ASSUME OwesNow(rs, x), Passes(rs, ws, es), NEW ck \in Con \X Key PROVE rs1[ck] <= 1
  <2>1. SUFFICES ASSUME Holding(rs, ws, ck[1], ck[2]) > 1 PROVE FALSE
    <3>1. rs1[ck] = Holding(rs, ws, ck[1], ck[2])
      OBVIOUS
    <3>2. Holding(rs, ws, ck[1], ck[2]) \in Nat
      BY <1>2, ConnectionAssumption
    <3> QED BY <3>1, <3>2
  <2>2. ck \in Broken(rs, ws)
    BY <2>1 DEF Broken
  <2>3. PICK j \in 1..Len(es) : Asks(es[j], ck)
    BY <1>1, <1>4, <2>2 DEF OwesNow, Covers
  <2>4. es[j] \in Range(es)
    BY DEF Range
  <2> QED BY <1>4, <2>2, <2>3, <2>4 DEF Passes, Asks
<1> QED BY <1>1, <1>3, <1>4

-----------------------------------------------------------------------------
(* The steps of the connection                                             *)

LEMMA AnsweredOK ==
    ASSUME NEW c, ConnOK(c), NEW ok, Answered(c, ok)
    PROVE  ConnOK(conn') /\ conn'.state = c.state
BY DEF Answered, ConnOK, ConnType

LEMMA EnteredOK ==
    ASSUME ConnOK(conn)
    PROVE  /\ ConnOK(Entered) /\ (Entered.state = "Auto" => conn.state = "Auto")
           /\ ConnOK([Entered EXCEPT !.state = "Failed"])
           /\ [Entered EXCEPT !.state = "Failed"].state = "Failed"
<1>1. ConnOK(Entered) /\ (Entered.state = "Auto" => conn.state = "Auto")
  BY DEF Entered, ConnOK, ConnType
<1> QED BY <1>1 DEF ConnOK, ConnType

LEMMA CountedIs ==
    ASSUME Shape
    PROVE  /\ Used(hist).clean = hist.clean /\ Used(hist).forgot = hist.forgot
           /\ Used(hist).checked = hist.checked
           /\ UsedAside(hist).clean = hist.clean /\ UsedAside(hist).forgot = hist.forgot
           /\ UsedAside(hist).checked = hist.checked
           /\ DOMAIN Used(hist) = DOMAIN hist /\ DOMAIN UsedAside(hist) = DOMAIN hist
BY DEF Shape, Used, UsedAside

\* A step is settled by what it makes of each variable.
LEMMA StepKeeps ==
    ASSUME ConnOK(conn'), conn'.state = "Auto" => txn' = NoTxn,
           hist'.clean \in BOOLEAN, hist'.forgot \in BOOLEAN,
           Follows(txn', notify', hist'.clean),
           Rowed(rows', txn', hist'.checked, hist'.forgot)
    PROVE  FollowInv' /\ RowsInv'
BY DEF FollowInv, RowsInv, ConnOK, ConnType, Follows, Rowed

\* A statement of a block that changes the transaction.
Told == hist'.clean = hist.clean /\ hist'.forgot = hist.forgot /\ hist'.checked = hist.checked

LEMMA SetSavepointKeeps ==
    ASSUME Shape, FollowInv, RowsInv, NEW n \in SaveName, SetSavepoint(n)
    PROVE  FollowInv' /\ RowsInv'
<1>1. ConnOK(conn') /\ conn'.state = "Active"
  BY AnsweredOK DEF FollowInv, SetSavepoint, Stays
<1>2. Told
  BY CountedIs DEF SetSavepoint, Told
<1>3. /\ txn' = Savepoint(txn, n) /\ rows' = rows
      /\ notify' = [notify EXCEPT !.marks = Append(@, [name |-> n, len |-> notify.queued])]
  BY DEF SetSavepoint, NotifySavepoint
<1>4. Follows(txn, notify, hist.clean) /\ Sound(txn) /\ txn \in TxnType /\ n \in Names
  BY FollowsIs DEF FollowInv, Names
<1>5. Follows(txn', notify', hist.clean)
  BY <1>3, <1>4, SavepointFollows
<1>6. Rowed(rows, Savepoint(txn, n), hist.checked, hist.forgot)
  <2>1. Rowed(rows, txn, hist.checked, hist.forgot)
    BY DEF RowsInv
  <2>2. Savepoint(txn, n).writes = txn.writes
    BY <1>4, SavepointIs
  <2>3. hist.checked \in 0..Len(txn.writes)
    BY <1>4, <2>1, RowedIs
  <2>4. OwesNow(rows, txn) /\ OwedAt(rows, txn, hist.checked) =>
           OwesNow(rows, Savepoint(txn, n)) /\ OwedAt(rows, Savepoint(txn, n), hist.checked)
    BY <1>4, SavepointOwed
  <2> QED BY <2>1, <2>2, <2>3, <2>4, SameRowed
<1> QED BY <1>1, <1>2, <1>3, <1>5, <1>6, StepKeeps DEF Told, FollowInv

LEMMA ReleaseKeeps ==
    ASSUME Shape, FollowInv, RowsInv, NEW n \in SaveName, ReleaseSavepoint(n)
    PROVE  FollowInv' /\ RowsInv'
<1>1. ConnOK(conn') /\ conn'.state = "Active"
  BY AnsweredOK DEF FollowInv, ReleaseSavepoint, Stays
<1>2. Told
  BY CountedIs DEF ReleaseSavepoint, Told
<1>3. /\ txn' = Released(txn, n) /\ rows' = rows /\ HasSave(txn, n) /\ notify' = LetGo(notify, n)
  BY DEF ReleaseSavepoint, NotifyRelease, Place, LetGo
<1>4. Follows(txn, notify, hist.clean) /\ Sound(txn) /\ txn \in TxnType
  BY FollowsIs DEF FollowInv
<1>5. Follows(txn', notify', hist.clean)
  BY <1>3, <1>4, BackFollows
<1>6. Rowed(rows, Released(txn, n), hist.checked, hist.forgot)
  <2>1. Rowed(rows, txn, hist.checked, hist.forgot)
    BY DEF RowsInv
  <2>2. Released(txn, n).writes = txn.writes
    BY <1>3, <1>4, WithoutIs DEF Without
  <2>3. hist.checked \in 0..Len(txn.writes)
    BY <1>4, <2>1, RowedIs
  <2>4. OwesNow(rows, txn) /\ OwedAt(rows, txn, hist.checked) =>
           OwesNow(rows, Released(txn, n)) /\ OwedAt(rows, Released(txn, n), hist.checked)
    BY <1>3, <1>4, ReleasedOwed
  <2> QED BY <2>1, <2>2, <2>3, <2>4, SameRowed
<1> QED BY <1>1, <1>2, <1>3, <1>5, <1>6, StepKeeps DEF Told, FollowInv

LEMMA RollbackToKeeps ==
    ASSUME Shape, FollowInv, RowsInv, NEW n \in SaveName, RollbackToSavepoint(n)
    PROVE  FollowInv' /\ RowsInv'
<1>1. ConnOK(conn') /\ conn'.state = "Active"
  <2>1. ConnOK([conn EXCEPT !.state = "Active"]) /\ [conn EXCEPT !.state = "Active"].state = "Active"
    BY DEF FollowInv, ConnOK, ConnType
  <2> QED BY <2>1, AnsweredOK DEF RollbackToSavepoint
<1>2. /\ txn' = RolledBackTo(txn, n) /\ rows' = rows /\ HasSave(txn, n)
      /\ notify' = WentBack(notify, n)
  BY DEF RollbackToSavepoint, NotifyRollbackTo, Place, WentBack
<1>3. Follows(txn, notify, hist.clean) /\ Sound(txn)
  BY FollowsIs DEF FollowInv
<1>4. Follows(txn', notify', hist.clean)
  BY <1>2, <1>3, BackFollows
<1>5. PICK y : y = txn'
  OBVIOUS
<1>6. /\ hist'.clean = hist.clean
      /\ hist'.checked = (IF hist.checked > Len(y.writes) THEN Len(y.writes) ELSE hist.checked)
      /\ hist'.forgot = (hist.forgot \/ (hist.checked > Len(y.writes) /\ Unchecked(rows, y) # {}))
  <2>1. PICK u : u = Used(hist)
    OBVIOUS
  <2>2. /\ u.clean = hist.clean /\ u.forgot = hist.forgot /\ u.checked = hist.checked
        /\ "clean" \in DOMAIN u /\ "forgot" \in DOMAIN u /\ "checked" \in DOMAIN u
    BY <2>1, CountedIs DEF Shape
  <2>3. hist' = [u EXCEPT
                  !.checked = IF @ > Len(y.writes) THEN Len(y.writes) ELSE @,
                  !.forgot = @ \/ (hist.checked > Len(y.writes) /\ Unchecked(rows, y) # {})]
    BY <1>5, <2>1 DEF RollbackToSavepoint
  <2> QED BY <2>2, <2>3
<1>7. Rowed(rows, y, hist'.checked, hist'.forgot)
  <2>1. Rowed(rows, txn, hist.checked, hist.forgot)
    BY DEF RowsInv
  <2>2. Rowed(rows, y, IF hist.checked > Len(y.writes) THEN Len(y.writes) ELSE hist.checked,
              hist.forgot \/ (hist.checked > Len(y.writes) /\ Unchecked(rows, y) # {}))
    BY <1>2, <1>3, <1>5, <2>1, BackRowed
  <2> QED BY <1>6, <2>2
<1>8. hist'.clean \in BOOLEAN /\ hist'.forgot \in BOOLEAN
  BY <1>6 DEF FollowInv
<1> QED BY <1>1, <1>2, <1>4, <1>5, <1>6, <1>7, <1>8, StepKeeps

\* What a transaction statement starts from.
LEMMA FollowNow ==
    ASSUME FollowInv, RowsInv
    PROVE  /\ Follows(txn, notify, hist.clean) /\ Sound(txn) /\ Own(txn) /\ txn \in TxnType
           /\ Rowed(rows, txn, hist.checked, hist.forgot) /\ rows \in Counted
           /\ hist.checked \in 0..Len(txn.writes) /\ Len(txn.writes) \in 0..Len(txn.writes)
           /\ Len(txn.writes) >= hist.checked
<1>1. Follows(txn, notify, hist.clean) /\ Rowed(rows, txn, hist.checked, hist.forgot)
  BY DEF FollowInv, RowsInv
<1>2. Sound(txn) /\ Own(txn) /\ txn \in TxnType
  BY <1>1, FollowsIs
<1>3. /\ rows \in Counted /\ hist.checked \in 0..Len(txn.writes) /\ Len(txn.writes) \in Nat
  BY <1>1, <1>2, RowedIs
<1>4. Len(txn.writes) \in 0..Len(txn.writes) /\ Len(txn.writes) >= hist.checked
  BY <1>3
<1> QED BY <1>1, <1>2, <1>3, <1>4

LEMMA WriteRowStep ==
    ASSUME Shape, FollowInv, RowsInv, NEW w \in Row, WriteRow(w)
    PROVE  FollowInv' /\ RowsInv'
<1>1. ConnOK(conn') /\ conn'.state = "Active"
  BY AnsweredOK, EnteredOK DEF FollowInv, WriteRow
<1>2. Told /\ rows' = rows /\ notify' = notify
  BY CountedIs DEF WriteRow, Told
<1>3. PICK y : y = Succeeded(Wrote(Savepoint(txn, Statement), w)) /\ txn' = y
  BY DEF WriteRow
<1>4. Writable(txn, w) /\ Admits(rows, txn, w)
  BY DEF WriteRow
<1>5. /\ Sound(y) /\ y.writes = Append(txn.writes, w) /\ y.saves = txn.saves
      /\ OwesNow(rows, txn) /\ OwedAt(rows, txn, hist.checked) =>
            OwesNow(rows, y) /\ OwedAt(rows, y, hist.checked)
  BY <1>3, <1>4, FollowNow, WriteRowKeeps
<1>6. Follows(y, notify, hist.clean)
  BY <1>5, FollowNow, WriteFollows
<1>7. w \in Log /\ \/ w = Notified
                   \/ /\ w \in Row
                      /\ w.op = "delete" => Holding(rows, txn.writes, w.con, w.key) > 0
                      /\ w.op # "delete" => Holding(rows, txn.writes, w.con, w.key) < MaxRows
  BY <1>4 DEF Writable, Log
<1>8. Rowed(rows, y, hist.checked, hist.forgot)
  BY <1>5, <1>7, FollowNow, AppendRowed
<1> QED BY <1>1, <1>2, <1>3, <1>6, <1>8, StepKeeps DEF Told, FollowInv

\* A statement that leaves the transaction the writes and the savepoints it had.
LEMMA SameStep ==
    ASSUME FollowInv, RowsInv, ConnOK(conn'), conn'.state # "Auto", notify' = notify, rows' = rows,
           NEW y, txn' = y, Sound(y), y.writes = txn.writes, y.saves = txn.saves,
           hist'.clean = hist.clean, hist'.forgot = hist.forgot,
           NEW k \in 0..Len(txn.writes), hist'.checked = k,
           OwesNow(rows, txn) /\ OwedAt(rows, txn, hist.checked) =>
               OwesNow(rows, y) /\ OwedAt(rows, y, k)
    PROVE  FollowInv' /\ RowsInv'
<1>1. Follows(y, notify, hist.clean)
  BY FollowNow, SameFollows
<1>2. Rowed(rows, y, k, hist.forgot)
  BY FollowNow, SameRowed
<1> QED BY <1>1, <1>2, StepKeeps DEF FollowInv

LEMMA WriteRowFailsStep ==
    ASSUME Shape, FollowInv, RowsInv, NEW w \in Row, WriteRowFails(w)
    PROVE  FollowInv' /\ RowsInv'
<1>1. ConnOK(conn') /\ conn'.state = "Failed"
  BY AnsweredOK, EnteredOK DEF FollowInv, WriteRowFails
<1>2. Told /\ rows' = rows /\ notify' = notify
  BY CountedIs DEF WriteRowFails, Told
<1>3. PICK y : y = Failed(Wrote(Savepoint(txn, Statement), w)) /\ txn' = y
  BY DEF WriteRowFails
<1>4. /\ Sound(y) /\ y.writes = txn.writes /\ y.saves = txn.saves
      /\ OwesNow(rows, txn) /\ OwedAt(rows, txn, hist.checked) =>
            OwesNow(rows, y) /\ OwedAt(rows, y, hist.checked)
  BY <1>3, FollowNow, WriteFailsKeeps
<1>5. hist.checked \in 0..Len(txn.writes)
  BY FollowNow
<1> QED BY <1>1, <1>2, <1>3, <1>4, <1>5, SameStep DEF Told

LEMMA SetConstraintsStep ==
    ASSUME Shape, FollowInv, RowsInv, NEW C, NEW mode \in Modes, SetConstraints(C, mode)
    PROVE  FollowInv' /\ RowsInv'
<1>1. PICK did : did = ModeSet(Savepoint(txn, Statement), C, mode)
  OBVIOUS
<1>2. rows' = rows /\ notify' = notify
  BY DEF SetConstraints
<1>3. hist.checked \in 0..Len(txn.writes) /\ Len(txn.writes) \in 0..Len(txn.writes)
  BY FollowNow
<1>4. CASE mode = "immediate" /\ ~Passes(rows, txn.writes, Due(did, C))
  <2>1. /\ txn' = Failed(did) /\ Answered([Entered EXCEPT !.state = "Failed"], FALSE)
        /\ hist' = Used(hist)
    BY <1>1, <1>4 DEF SetConstraints
  <2>2. ConnOK(conn') /\ conn'.state # "Auto"
    BY <2>1, AnsweredOK, EnteredOK DEF FollowInv
  <2>3. Told
    BY <2>1, CountedIs DEF Told
  <2>4. PICK y : y = Failed(did) /\ txn' = y
    BY <2>1
  <2>5. /\ Sound(y) /\ y.writes = txn.writes /\ y.saves = txn.saves
        /\ OwesNow(rows, txn) /\ OwedAt(rows, txn, hist.checked) =>
              OwesNow(rows, y) /\ OwedAt(rows, y, hist.checked)
    BY <1>1, <2>4, FollowNow, ModeFailsKeeps
  <2> QED BY <1>2, <1>3, <2>2, <2>3, <2>4, <2>5, SameStep DEF Told
<1>5. CASE ~(mode = "immediate" /\ ~Passes(rows, txn.writes, Due(did, C)))
  <2>1. /\ txn' = Succeeded(IF mode = "immediate" THEN [did EXCEPT !.queue = Retain(@, C)] ELSE did)
        /\ Answered(Entered, TRUE) /\ Entered.state = "Active"
        /\ hist' = IF mode = "immediate" /\ Due(did, C) # <<>>
                   THEN [Used(hist) EXCEPT !.checked = Len(txn.writes)] ELSE Used(hist)
    BY <1>1, <1>5 DEF SetConstraints
  <2>2. ConnOK(conn') /\ conn'.state # "Auto"
    BY <2>1, AnsweredOK, EnteredOK DEF FollowInv
  <2>3. CASE mode # "immediate"
    <3>1. Told
      BY <2>1, <2>3, CountedIs DEF Told
    <3>2. PICK y : y = Succeeded(did) /\ txn' = y
      BY <2>1, <2>3
    <3>3. /\ Sound(y) /\ y.writes = txn.writes /\ y.saves = txn.saves
          /\ OwesNow(rows, txn) /\ OwedAt(rows, txn, hist.checked) =>
                OwesNow(rows, y) /\ OwedAt(rows, y, hist.checked)
      BY <1>1, <3>2, FollowNow, ModeKeeps
    <3> QED BY <1>2, <1>3, <2>2, <3>1, <3>2, <3>3, SameStep DEF Told
  <2>4. CASE mode = "immediate"
    <3>1. PICK y : y = Succeeded([did EXCEPT !.queue = Retain(@, C)]) /\ txn' = y
      BY <2>1, <2>4
    <3>2. Passes(rows, txn.writes, Due(did, C))
      BY <1>5, <2>4
    <3>3. /\ Sound(y) /\ y.writes = txn.writes /\ y.saves = txn.saves
          /\ OwesNow(rows, txn) /\ OwedAt(rows, txn, hist.checked) =>
                /\ OwesNow(rows, y) /\ OwedAt(rows, y, Len(txn.writes))
                /\ Due(did, C) = <<>> => OwedAt(rows, y, hist.checked)
      BY <1>1, <3>1, <3>2, FollowNow, ImmediateKeeps
    <3>4. CASE Due(did, C) = <<>>
      <4>1. Told
        BY <2>1, <3>4, CountedIs DEF Told
      <4> QED BY <1>2, <1>3, <2>2, <3>1, <3>3, <3>4, <4>1, SameStep DEF Told
    <3>5. CASE Due(did, C) # <<>>
      <4>1. hist' = [Used(hist) EXCEPT !.checked = Len(txn.writes)]
        BY <2>1, <2>4, <3>5
      <4>2. PICK u : /\ u = Used(hist) /\ u.clean = hist.clean /\ u.forgot = hist.forgot
                     /\ "checked" \in DOMAIN u /\ "clean" \in DOMAIN u /\ "forgot" \in DOMAIN u
        BY CountedIs DEF Shape
      <4>3. /\ hist'.clean = hist.clean /\ hist'.forgot = hist.forgot
            /\ hist'.checked = Len(txn.writes)
        BY <4>1, <4>2
      <4> QED BY <1>2, <1>3, <2>2, <3>1, <3>3, <4>3, SameStep
    <3> QED BY <3>4, <3>5
  <2> QED BY <2>3, <2>4
<1> QED BY <1>4, <1>5

LEMMA NotifyStep ==
    ASSUME Shape, FollowInv, RowsInv, Notify
    PROVE  FollowInv' /\ RowsInv'
<1>1. ConnOK(conn') /\ conn'.state = "Active"
  <2>1. PICK e : e = Entered /\ ConnOK(e) /\ e.state = "Active"
    BY EnteredOK DEF FollowInv, Notify
  <2>2. PICK b \in BOOLEAN : Answered([e EXCEPT !.pubsub = b], TRUE)
    <3>1. e.pubsub \in BOOLEAN
      BY <2>1 DEF ConnOK, ConnType
    <3> QED BY <2>1, <3>1 DEF Notify
  <2>3. ConnOK([e EXCEPT !.pubsub = b]) /\ [e EXCEPT !.pubsub = b].state = "Active"
    BY <2>1 DEF ConnOK, ConnType
  <2> QED BY <2>2, <2>3, AnsweredOK
<1>2. Told /\ rows' = rows
  BY CountedIs DEF Notify, Told
<1>3. /\ txn' = [txn EXCEPT !.writes = Append(@, Notified)]
      /\ notify' = [notify EXCEPT !.queued = @ + 1]
  BY DEF Notify
<1>4. Follows(txn', notify', hist.clean)
  BY <1>3, FollowNow, NotifyFollows
<1>5. PICK y : y = txn' /\ Extended(y, txn, Notified) /\ y.writes = Append(txn.writes, Notified)
  BY <1>3, FollowNow, NotifiedIs DEF Extended
<1>6. Notified \in Log /\ Notified \in Row \cup {Notified} /\ Notified.op # "insert"
  BY DEF Log, Notified
<1>7. OwesNow(rows, txn) /\ OwedAt(rows, txn, hist.checked) =>
         OwesNow(rows, y) /\ OwedAt(rows, y, hist.checked)
  BY <1>5, <1>6, FollowNow, ExtendedOwed, ExtendedOwes
<1>8. Rowed(rows, y, hist.checked, hist.forgot)
  BY <1>5, <1>6, <1>7, FollowNow, AppendRowed
<1> QED BY <1>1, <1>2, <1>4, <1>5, <1>8, StepKeeps DEF Told, FollowInv

LEMMA AutoWriteStep ==
    ASSUME FollowInv, RowsInv, NEW w \in Row, AutoWrite(w)
    PROVE  FollowInv' /\ RowsInv'
<1>1. txn = NoTxn /\ ~hist.forgot /\ UNCHANGED <<conn, txn, guc, cursors, notify, hist>>
  BY DEF FollowInv, AutoWrite, Ready, InBlock
<1>2. FollowInv'
  BY <1>1 DEF FollowInv, ConnOK, ConnType, Follows
<1>3. PICK did : did = Wrote(NoTxn, w)
  OBVIOUS
<1>4. /\ Writable(NoTxn, w) /\ Admits(rows, NoTxn, w)
      /\ Passes(rows, did.writes, did.queue.entries) /\ rows' = Applied(did.writes)
  BY <1>3 DEF AutoWrite
<1>5. /\ rows \in Counted /\ Countable(rows, NoTxn.writes) /\ OwesNow(rows, NoTxn)
      /\ NoTxn.writes \in Seq(Log) /\ hist.checked = 0
  <2>1. Rowed(rows, NoTxn, hist.checked, hist.forgot) /\ NoTxn \in TxnType
    BY <1>1, FollowNow
  <2>2. /\ rows \in Counted /\ Countable(rows, NoTxn.writes) /\ OwesNow(rows, NoTxn)
        /\ NoTxn.writes \in Seq(Log)
    BY <1>1, <2>1, RowedIs DEF Rowed
  <2>3. hist.checked \in 0..Len(NoTxn.writes) /\ NoTxn.writes = <<>>
    BY <2>1, RowedIs DEF NoTxn
  <2> QED BY <2>2, <2>3
<1>6. /\ Extended(did, NoTxn, w)
      /\ w.op = "insert" /\ Defers(NoTxn.queue, w.con) =>
            \E j \in 1..Len(did.queue.entries) : Asks(did.queue.entries[j], <<w.con, w.key>>)
  BY <1>3, NoTxnFollows, WroteIs
<1>7. did \in TxnType /\ did.writes = Append(NoTxn.writes, w) /\ w \in Row \cup {Notified} /\ w \in Log
  BY <1>6 DEF Extended, Log
<1>8. OwesNow(rows, did)
  <2>1. \/ w.op # "insert" \/ <<w.con, w.key>> \notin Broken(rows, Append(NoTxn.writes, w))
        \/ \E j \in 1..Len(did.queue.entries) : Asks(did.queue.entries[j], <<w.con, w.key>>)
    BY <1>4, <1>6 DEF Admits
  <2> QED BY <1>5, <1>6, <1>7, <2>1, NoTxnFollows, ExtendedOwes
<1>9. Countable(rows, did.writes)
  <2>1. /\ w.op = "delete" => Holding(rows, NoTxn.writes, w.con, w.key) > 0
        /\ w.op # "delete" => Holding(rows, NoTxn.writes, w.con, w.key) < MaxRows
    BY <1>4 DEF Writable
  <2> QED BY <1>5, <1>7, <2>1, CountableAppend
<1>10. PICK rs1 : rs1 = [ck \in Con \X Key |-> Holding(rows, did.writes, ck[1], ck[2])]
  OBVIOUS
<1>11. rows' = rs1
  BY <1>4, <1>10 DEF Applied
<1>12. rs1 \in [Con \X Key -> 0..MaxRows] /\ \A ck \in Con \X Key : rs1[ck] <= 1
  BY <1>4, <1>7, <1>8, <1>9, <1>10, CommitRowed
<1>13. Rowed(rs1, NoTxn, 0, FALSE)
  BY <1>12, RowedNone
<1>14. Rowed(rows', txn', hist'.checked, hist'.forgot)
  BY <1>1, <1>5, <1>11, <1>13 DEF Rowed
<1> QED BY <1>2, <1>14 DEF RowsInv, Rowed

LEMMA EndsStep ==
    ASSUME Shape, FollowInv, NEW kept, NEW truly, NEW control, NEW ok \in BOOLEAN,
           NEW c \in ConnType, Ends(kept, truly, control, ok, c),
           rows' \in [Con \X Key -> 0..MaxRows],
           ~hist.forgot => \A ck \in Con \X Key : rows'[ck] <= 1
    PROVE  FollowInv' /\ RowsInv'
<1>1. ConnOK(conn') /\ txn' = NoTxn
  <2>1. ConnOK([c EXCEPT !.state = "Auto", !.implicit = FALSE, !.pubsub = FALSE])
    BY DEF ConnOK, ConnType
  <2> QED BY <2>1, AnsweredOK DEF Ends
<1>2. PICK rs \in [Con \X Key -> 0..MaxRows] : rs = rows'
  OBVIOUS
<1>3. /\ hist'.checked = 0 /\ hist'.clean = (ok \/ (hist.clean /\ notify = NoNotify))
      /\ hist'.forgot = (hist.forgot /\ \E ck \in Con \X Key : rs[ck] > 1)
  <2>1. PICK u : u = Settled(hist, kept)
    OBVIOUS
  <2>2. PICK h : h = Fresh(hist) /\ DOMAIN h = DOMAIN hist /\ h.checked = 0 /\ h.clean = hist.clean
                 /\ h.forgot = hist.forgot
    <3>1. PICK h : h = Fresh(hist)
      OBVIOUS
    <3>2. h = [hist EXCEPT !.sess = None, !.unseen = None, !.checked = 0, !.stmts = 0, !.asides = 0]
      BY <3>1 DEF Fresh
    <3>3. DOMAIN h = DOMAIN hist /\ h.checked = 0 /\ h.clean = hist.clean /\ h.forgot = hist.forgot
      BY <3>2 DEF Shape
    <3> QED BY <3>1, <3>3
  <2>3. /\ u.checked = 0 /\ u.clean = hist.clean /\ u.forgot = hist.forgot
        /\ DOMAIN u = DOMAIN hist
    BY <2>1, <2>2 DEF Settled, Shape
  <2>4. hist' = [u EXCEPT !.clean = ok \/ (@ /\ notify = NoNotify),
                          !.forgot = @ /\ \E ck \in Con \X Key : rs[ck] > 1]
    BY <1>2, <2>1 DEF Ends
  <2>5. "clean" \in DOMAIN u /\ "forgot" \in DOMAIN u /\ "checked" \in DOMAIN u
    BY <2>3 DEF Shape
  <2> QED BY <2>3, <2>4, <2>5
<1>4. hist'.clean \in BOOLEAN /\ hist'.forgot \in BOOLEAN
  BY <1>3 DEF FollowInv
<1>5. PICK q, cl : q = notify' /\ cl = hist'.clean
  OBVIOUS
<1>6. q \in NotifyType /\ Climb(q.marks, q.queued) /\ (cl => q = NoNotify)
  <2>1. q = IF ok THEN NoNotify ELSE notify
    BY <1>5 DEF Ends
  <2>2. notify \in NotifyType /\ Climb(notify.marks, notify.queued)
    BY DEF FollowInv, Follows
  <2>3. NoNotify \in NotifyType /\ Climb(NoNotify.marks, NoNotify.queued)
    BY NoTxnFollows
  <2>4. q \in NotifyType /\ Climb(q.marks, q.queued)
    BY <2>1, <2>2, <2>3
  <2>5. cl => q = NoNotify
    BY <1>3, <1>5, <2>1
  <2> QED BY <2>4, <2>5
<1>7. Follows(NoTxn, q, cl)
  BY <1>6, NoTxnClean
<1>8. PICK f \in BOOLEAN : f = hist'.forgot
  BY <1>4
<1>9. ~f => \A ck \in Con \X Key : rs[ck] <= 1
  <2>1. CASE ~hist.forgot
    BY <1>2, <2>1
  <2>2. CASE hist.forgot
    <3>1. ~f => ~\E ck \in Con \X Key : rs[ck] > 1
      BY <1>3, <1>8, <2>2
    <3>2. \A ck \in Con \X Key : rs[ck] \in Nat
      BY ConnectionAssumption
    <3>3. \A ck \in Con \X Key : ~(rs[ck] > 1) => rs[ck] <= 1
      BY <3>2
    <3> QED BY <3>1, <3>3
  <2> QED BY <2>1, <2>2
<1>10. Rowed(rs, NoTxn, 0, f)
  BY <1>9, RowedNone
<1> QED BY <1>1, <1>2, <1>3, <1>4, <1>5, <1>7, <1>8, <1>10, StepKeeps

LEMMA EndingStep ==
    ASSUME Shape, FollowInv, RowsInv, Ending
    PROVE  FollowInv' /\ RowsInv'
<1>1. conn \in ConnType /\ [conn EXCEPT !.batch = "none"] \in ConnType
  BY DEF FollowInv, ConnOK, ConnType
<1>2. rows \in [Con \X Key -> 0..MaxRows] /\ (~hist.forgot => \A ck \in Con \X Key : rows[ck] <= 1)
  BY DEF RowsInv, Rowed
<1>3. ASSUME Commits
      PROVE  /\ rows' \in [Con \X Key -> 0..MaxRows]
             /\ ~hist.forgot => \A ck \in Con \X Key : rows'[ck] <= 1
  <2>1. PICK rs1 : rs1 = [ck \in Con \X Key |-> Holding(rows, txn.writes, ck[1], ck[2])]
    OBVIOUS
  <2>2. rows' = rs1 /\ Passes(rows, txn.writes, txn.queue.entries)
    BY <1>3, <2>1 DEF Commits, Applied
  <2>3. Countable(rows, txn.writes) /\ txn \in TxnType /\ (~hist.forgot => OwesNow(rows, txn))
    BY FollowNow DEF RowsInv, Rowed
  <2>4. /\ rs1 \in [Con \X Key -> 0..MaxRows]
        /\ ~hist.forgot => \A ck \in Con \X Key : rs1[ck] <= 1
    BY <2>1, <2>2, <2>3, CommitRowed
  <2> QED BY <2>2, <2>4
<1>4. CASE CommitActive
  BY <1>1, <1>3, <1>4, EndsStep DEF CommitActive
<1>5. CASE ImplicitCommits
  BY <1>1, <1>3, <1>5, EndsStep DEF ImplicitCommits
<1>6. CASE CommitRefused
  BY <1>1, <1>2, <1>6, EndsStep DEF CommitRefused
<1>7. CASE CommitFailedBlock
  BY <1>1, <1>2, <1>7, EndsStep DEF CommitFailedBlock
<1>8. CASE Rollback
  BY <1>1, <1>2, <1>8, EndsStep DEF Rollback
<1>9. CASE PrepareTransaction
  BY <1>1, <1>2, <1>9, EndsStep DEF PrepareTransaction
<1>10. CASE PrepareRefused
  BY <1>1, <1>2, <1>10, EndsStep DEF PrepareRefused
<1>11. CASE PrepareFailedBlock
  BY <1>1, <1>2, <1>11, EndsStep DEF PrepareFailedBlock
<1>12. CASE ImplicitRollsBack
  BY <1>1, <1>2, <1>12, EndsStep DEF ImplicitRollsBack
<1> QED BY <1>4, <1>5, <1>6, <1>7, <1>8, <1>9, <1>10, <1>11, <1>12 DEF Ending

\* The statements that leave the transaction, the rows and the queue alone.
LEMMA StillStep ==
    ASSUME FollowInv, RowsInv, UNCHANGED <<txn, rows, notify>>, Told, ConnOK(conn'),
           conn'.state = "Auto" => conn.state = "Auto"
    PROVE  FollowInv' /\ RowsInv'
<1>1. conn'.state = "Auto" => txn' = NoTxn
  BY DEF FollowInv
<1>2. Follows(txn', notify', hist'.clean)
  BY DEF Told, FollowInv
<1>3. Rowed(rows', txn', hist'.checked, hist'.forgot)
  BY DEF Told, RowsInv
<1> QED BY <1>1, <1>2, <1>3, StepKeeps DEF Told, FollowInv

LEMMA BeginStep ==
    ASSUME Shape, FollowInv, RowsInv, Begin
    PROVE  FollowInv' /\ RowsInv'
<1>1. ConnOK(conn) /\ UNCHANGED <<rows, txn>>
  BY DEF FollowInv, Begin
<1>2. CASE conn.implicit
  <2>1. PICK d : d = [conn EXCEPT !.implicit = FALSE] /\ ConnOK(d) /\ d.state = conn.state
    <3>1. ConnOK([conn EXCEPT !.implicit = FALSE]) /\ [conn EXCEPT !.implicit = FALSE].state = conn.state
      BY <1>1 DEF ConnOK, ConnType
    <3> QED BY <3>1
  <2>2. Answered(d, TRUE) /\ UNCHANGED <<notify, hist>>
    BY <1>2, <2>1 DEF Begin
  <2>3. ConnOK(conn') /\ conn'.state = conn.state
    BY <2>1, <2>2, AnsweredOK
  <2> QED BY <1>1, <2>2, <2>3, StillStep DEF Told
<1>3. CASE ~conn.implicit
  <2>1. PICK d : /\ d = IF InBlock THEN conn ELSE [conn EXCEPT !.state = "Active", !.pubsub = FALSE]
                 /\ ConnOK(d) /\ d.state # "Auto"
    <3>1. CASE InBlock
      BY <1>1, <3>1 DEF InBlock
    <3>2. CASE ~InBlock
      <4>1. ConnOK([conn EXCEPT !.state = "Active", !.pubsub = FALSE])
        BY <1>1, <1>3 DEF ConnOK, ConnType
      <4>2. [conn EXCEPT !.state = "Active", !.pubsub = FALSE].state = "Active"
        BY <1>1 DEF ConnOK, ConnType
      <4> QED BY <3>2, <4>1, <4>2
    <3> QED BY <3>1, <3>2
  <2>2. /\ Answered(d, TRUE) /\ notify' = NoNotify
        /\ hist' = [hist EXCEPT !.clean = ~InBlock \/ (@ /\ notify = NoNotify)]
    BY <1>3, <2>1 DEF Begin
  <2>3. ConnOK(conn') /\ conn'.state # "Auto"
    BY <2>1, <2>2, AnsweredOK
  <2>4. /\ hist'.clean = (~InBlock \/ (hist.clean /\ notify = NoNotify))
        /\ hist'.forgot = hist.forgot /\ hist'.checked = hist.checked
    BY <2>2 DEF Shape
  <2>5. hist'.clean \in BOOLEAN /\ hist'.forgot \in BOOLEAN
    BY <2>4 DEF FollowInv
  <2>6. hist'.clean => Counts(NoNotify, txn)
    <3>1. CASE ~InBlock
      <4>1. txn = NoTxn
        BY <3>1 DEF InBlock, FollowInv
      <4> QED BY <4>1, NoTxnFollows
    <3>2. CASE InBlock
      BY <2>4, <3>2 DEF FollowInv, Follows
    <3> QED BY <3>1, <3>2
  <2>7. Follows(txn, NoNotify, hist'.clean)
    BY <2>6, FollowNow, NoTxnFollows DEF Follows
  <2>8. Follows(txn', notify', hist'.clean)
    BY <1>1, <2>2, <2>7
  <2>9. Rowed(rows', txn', hist'.checked, hist'.forgot)
    BY <1>1, <2>4, FollowNow
  <2> QED BY <2>3, <2>5, <2>8, <2>9, StepKeeps
<1> QED BY <1>2, <1>3

\* The other statements.
Aloof ==
    \/ StatementRefused \/ StatementFails \/ NotifyRefused \/ ResetAll
    \/ \E v \in Value \cup {Unset}, local \in BOOLEAN : SetVariable(v, local)
    \/ \E n \in Cursor : Close(n) \/ \E hold \in BOOLEAN : Declare(n, hold)
    \/ BatchBegins \/ BatchEnds

LEMMA AloofStep ==
    ASSUME Shape, FollowInv, RowsInv, Aloof
    PROVE  FollowInv' /\ RowsInv'
<1>1. ConnOK(conn)
  BY DEF FollowInv
<1> USE DEF Told
<1>2. CASE StatementRefused
  <2>1. ConnOK(conn') /\ conn'.state = conn.state
    BY <1>1, <1>2, AnsweredOK DEF StatementRefused, Stays
  <2> QED BY <1>2, <2>1, StillStep DEF StatementRefused
<1>3. CASE StatementFails
  <2>1. ConnOK(conn') /\ conn'.state = "Failed"
    BY <1>1, <1>3, AnsweredOK, EnteredOK DEF StatementFails
  <2> QED BY <1>3, <2>1, StillStep DEF StatementFails
<1>4. CASE NotifyRefused
  <2>1. ConnOK(conn') /\ conn'.state = conn.state
    BY <1>1, <1>4 DEF NotifyRefused, ConnOK, ConnType
  <2> QED BY <1>4, <2>1, StillStep DEF NotifyRefused
<1>5. CASE ResetAll
  <2>1. ConnOK(conn') /\ (conn'.state = "Auto" => conn.state = "Auto")
    BY <1>1, <1>5, AnsweredOK, EnteredOK DEF ResetAll
  <2>2. PICK u : u = UsedAside(hist) /\ u.clean = hist.clean /\ u.forgot = hist.forgot
                 /\ u.checked = hist.checked /\ DOMAIN u = DOMAIN hist
    BY CountedIs
  <2>3. PICK b : \/ hist' = [u EXCEPT !.sess = Unset, !.unseen = b]
                 \/ hist' = [hist EXCEPT !.base = Unset, !.lost = None]
    BY <1>5, <2>2 DEF ResetAll
  <2>4. Told
    BY <2>2, <2>3 DEF Shape
  <2> QED BY <1>5, <2>1, <2>4, StillStep DEF ResetAll
<1>6. ASSUME NEW v, NEW local \in BOOLEAN, SetVariable(v, local) PROVE FollowInv' /\ RowsInv'
  <2>1. ConnOK(conn') /\ (conn'.state = "Auto" => conn.state = "Auto")
    BY <1>1, <1>6, AnsweredOK, EnteredOK DEF SetVariable
  <2>2. PICK u : u = UsedAside(hist) /\ u.clean = hist.clean /\ u.forgot = hist.forgot
                 /\ u.checked = hist.checked /\ DOMAIN u = DOMAIN hist
    BY CountedIs
  <2>3. \/ hist' = [hist EXCEPT !.base = v, !.lost = None] \/ hist' = u
        \/ hist' = [u EXCEPT !.sess = v, !.unseen = None]
    BY <1>6, <2>2 DEF SetVariable
  <2>4. Told
    BY <2>2, <2>3 DEF Shape
  <2> QED BY <1>6, <2>1, <2>4, StillStep DEF SetVariable
<1>7. ASSUME NEW n \in Cursor, Close(n) PROVE FollowInv' /\ RowsInv'
  <2>1. ConnOK(conn') /\ (conn'.state = "Auto" => conn.state = "Auto")
    BY <1>1, <1>7, AnsweredOK, EnteredOK DEF Close
  <2>2. Told
    BY <1>7, CountedIs DEF Close
  <2> QED BY <1>7, <2>1, <2>2, StillStep DEF Close
<1>8. ASSUME NEW n \in Cursor, NEW hold \in BOOLEAN, Declare(n, hold) PROVE FollowInv' /\ RowsInv'
  <2>1. ConnOK(conn') /\ (conn'.state = "Auto" => conn.state = "Auto")
    BY <1>1, <1>8, AnsweredOK, EnteredOK DEF Declare
  <2>2. Told
    BY <1>8, CountedIs DEF Declare
  <2> QED BY <1>8, <2>1, <2>2, StillStep DEF Declare
<1>9. CASE BatchBegins
  <2>1. ConnOK(conn') /\ conn'.state = conn.state
    BY <1>1, <1>9 DEF BatchBegins, ConnOK, ConnType
  <2> QED BY <1>9, <2>1, StillStep DEF BatchBegins
<1>10. CASE BatchEnds
  <2>1. ConnOK(conn') /\ conn'.state = conn.state
    BY <1>1, <1>10 DEF BatchEnds, ConnOK, ConnType
  <2> QED BY <1>10, <2>1, StillStep DEF BatchEnds
<1> QED BY <1>2, <1>3, <1>4, <1>5, <1>6, <1>7, <1>8, <1>9, <1>10 DEF Aloof

LEMMA FollowStart == Init => FollowInv /\ RowsInv
<1> SUFFICES ASSUME Init PROVE FollowInv /\ RowsInv
  OBVIOUS
<1>1. ConnOK(conn) /\ txn = NoTxn /\ notify = NoNotify
  BY DEF Init, ConnOK, ConnType
<1>2. /\ hist.clean = TRUE /\ hist.forgot = FALSE /\ hist.checked = 0
  BY DEF Init
<1>3. Follows(NoTxn, NoNotify, TRUE)
  BY NoTxnFollows, NoTxnClean
<1>4. rows \in [Con \X Key -> 0..MaxRows] /\ \A ck \in Con \X Key : rows[ck] <= 1
  <2>1. rows \in [Con \X Key -> {0, 1}]
    BY DEF Init
  <2>2. 0 \in 0..MaxRows /\ 1 \in 0..MaxRows
    BY ConnectionAssumption
  <2> QED BY <2>1, <2>2
<1>5. Rowed(rows, NoTxn, 0, FALSE)
  BY <1>4, RowedNone
<1> QED BY <1>1, <1>2, <1>3, <1>5 DEF FollowInv, RowsInv

LEMMA FollowStep == Shape /\ FollowInv /\ RowsInv /\ [Next]_vars => FollowInv' /\ RowsInv'
<1> SUFFICES ASSUME Shape, FollowInv, RowsInv, [Next]_vars PROVE FollowInv' /\ RowsInv'
  OBVIOUS
<1>1. CASE UNCHANGED vars
  <2>1. UNCHANGED <<txn, rows, notify>> /\ Told /\ conn' = conn
    BY <1>1 DEF vars, Told
  <2>2. ConnOK(conn')
    BY <2>1 DEF FollowInv
  <2> QED BY <2>1, <2>2, StillStep
<1>2. CASE Ending
  BY <1>2, EndingStep
<1>3. CASE Aloof
  BY <1>3, AloofStep
<1>4. CASE Begin
  BY <1>4, BeginStep
<1>5. CASE Notify
  BY <1>5, NotifyStep
<1>6. ASSUME NEW n \in SaveName, SetSavepoint(n) \/ RollbackToSavepoint(n) \/ ReleaseSavepoint(n)
      PROVE  FollowInv' /\ RowsInv'
  BY <1>6, SetSavepointKeeps, RollbackToKeeps, ReleaseKeeps
<1>7. ASSUME NEW w \in Row, WriteRow(w) \/ WriteRowFails(w) \/ AutoWrite(w)
      PROVE  FollowInv' /\ RowsInv'
  BY <1>7, WriteRowStep, WriteRowFailsStep, AutoWriteStep
<1>8. ASSUME NEW C \in {Con} \cup {{c} : c \in Con}, NEW mode \in Modes \ {Unset},
             SetConstraints(C, mode)
      PROVE  FollowInv' /\ RowsInv'
  BY <1>8, SetConstraintsStep
<1> QED BY <1>1, <1>2, <1>3, <1>4, <1>5, <1>6, <1>7, <1>8 DEF Next, Ending, Aloof

-----------------------------------------------------------------------------
(* What the three stores promise                                           *)

\* The invariant of the savepoints: the engine's, the deferred queue's marks and
\* the NOTIFY queue's marks name the same points of the transaction in the same
\* order, and the checks owed at each are still queued.
THEOREM StoresFollow == Spec => [](FollowInv /\ RowsInv)
<1>1. Init => SettleInv /\ FollowInv /\ RowsInv
  BY SettleStart, FollowStart
<1>2. SettleInv /\ FollowInv /\ RowsInv /\ [Next]_vars => SettleInv' /\ FollowInv' /\ RowsInv'
  BY SettleStep, FollowStep DEF SettleInv
<1> QED BY <1>1, <1>2, PTL DEF Spec

\* The NOTIFY queue is the NOTIFYs of the open transaction that no ROLLBACK TO
\* took back, however many savepoints of one name there were and however they
\* were released (PendingNotifications).
THEOREM NotifyQueueFollows == Spec => []QueueFollowsTransaction
<1>1. FollowInv => QueueFollowsTransaction
  <2> SUFFICES ASSUME FollowInv, hist.clean PROVE notify.queued = Notifies(txn)
    BY DEF QueueFollowsTransaction
  <2>1. Counts(notify, txn)
    BY DEF FollowInv, Follows
  <2> QED BY <2>1 DEF Counts, Tallies, Notifies, NotifiesIn
<1> QED BY <1>1, StoresFollow, PTL

\* No key is held twice without a check that COMMIT will run, and no committed
\* key is: for any number of constraints, keys, savepoints and statements, and
\* wherever the queue collapses to whole-table checks (deferred.rs), except
\* where SET CONSTRAINTS IMMEDIATE forgot one.
THEOREM BrokenKeysStayOwed == Spec => []BrokenKeysAreOwed
<1>1. FollowInv /\ RowsInv => BrokenKeysAreOwed
  <2> SUFFICES ASSUME FollowInv, RowsInv, ~hist.forgot
               PROVE  Unchecked(rows, txn) = {} /\ \A ck \in Con \X Key : rows[ck] <= 1
    BY DEF BrokenKeysAreOwed
  <2>1. OwesNow(rows, txn) /\ \A ck \in Con \X Key : rows[ck] <= 1
    BY DEF RowsInv, Rowed
  <2> QED BY <2>1, FollowNow, UncheckedNone
<1> QED BY <1>1, StoresFollow, PTL

\* The connection's type invariant: the marks of the engine, of the deferred
\* queue and of the NOTIFY queue point into what they cut and climb.
THEOREM ConnectionTypeOK == Spec => []TypeOK
<1>1. SettleInv /\ FollowInv /\ RowsInv => TypeOK
  <2> SUFFICES ASSUME SettleInv, FollowInv, RowsInv PROVE TypeOK
    OBVIOUS
  <2>1. Sound(txn) /\ txn \in TxnType
    BY FollowNow
  <2>2. Climb(txn.saves, Len(txn.writes))
    <3>1. PICK sv \in Seq(SaveType) : sv = txn.saves
      BY <2>1, TxnFields
    <3>2. DOMAIN sv = 1..Len(sv) /\ Len(txn.writes) \in Nat
      BY <2>1, TxnFields
    <3>3. \A i \in 1..Len(sv) : sv[i].len <= Len(txn.writes) /\ sv[i].len \in Nat
      BY <2>1, <3>1, SaveFields DEF Sound
    <3>4. \A i \in 1..Len(sv) : sv[i].len \in 0..Len(txn.writes)
      BY <3>2, <3>3
    <3>5. \A i, j \in 1..Len(sv) : i < j => sv[i].len <= sv[j].len
      BY <2>1, <3>1 DEF Sound, InOrder
    <3> QED BY <3>1, <3>2, <3>4, <3>5 DEF Climb
  <2>3. /\ Climb(txn.queue.marks, Len(txn.queue.entries))
        /\ ~txn.queue.on => txn.queue = NoQueue
    BY <2>1 DEF Sound
  <2>4. Range(txn.queue.entries) \subseteq Entry
    BY <2>1, TxnFields DEF Range
  <2>5. /\ ConnOK(conn) /\ (conn.state = "Auto" => txn = NoTxn)
        /\ notify \in NotifyType /\ Climb(notify.marks, notify.queued)
    BY DEF FollowInv, Follows
  <2>6. rows \in [Con \X Key -> 0..MaxRows]
    BY DEF RowsInv, Rowed
  <2>7. notify.queued \in Nat
    BY <2>5, NotifyFields
  <2>8. guc \in [live : Value \cup {Unset}, backup : Value \cup {Unset, None},
                 pending : Value \cup {Unset, None}]
    BY DEF SettleInv, Shape, Setting
  <2> QED BY <2>2, <2>3, <2>4, <2>5, <2>6, <2>7, <2>8 DEF TypeOK, ConnOK, ConnType
<1> QED BY <1>1, EndsAreSettled, StoresFollow, PTL
=============================================================================
