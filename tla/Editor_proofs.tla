---------------------------- MODULE Editor_proofs ----------------------------
(***************************************************************************)
(* The proofs that the editor's baseline is the document of its revision   *)
(* and that what is deployed is what was shown, for any documents, any     *)
(* number of revisions and any overlap of requests.                        *)
(***************************************************************************)
EXTENDS Editor, TLAPS

\* Requests name revisions the server has made.
AnswersExist ==
    \A k \in AllKinds : request[k] # NoRequest => request[k].rev \in 1 .. Current

IInv == EditorTypeOK /\ AnswersExist /\ BaselineIsRevision /\ DeploysWhatWasShown

\* A history whose stacks respect the limit.
Bounded(h) == h \in Histories /\ Len(h.past) <= Limit /\ Len(h.future) <= Limit

-----------------------------------------------------------------------------
LEMMA PushIsBounded ==
    ASSUME NEW entries \in Seq(Documents), Len(entries) <= Limit, NEW doc \in Documents
    PROVE  Push(entries, doc) \in Seq(Documents) /\ Len(Push(entries, doc)) <= Limit
<1>1. Limit \in Nat /\ Limit >= 1 /\ Len(entries) \in Nat
  BY EditorAssumption
<1>2. CASE Len(entries) < Limit
  BY <1>1, <1>2 DEF Push
<1>3. CASE ~(Len(entries) < Limit)
  <2>1. entries # <<>>
    BY <1>1, <1>3
  <2>2. Tail(entries) \in Seq(Documents) /\ Len(Tail(entries)) = Len(entries) - 1
    BY <2>1
  <2>3. QED
    BY <1>1, <1>3, <2>2 DEF Push
<1>4. QED
  BY <1>2, <1>3

LEMMA UpdatedIsBounded ==
    ASSUME NEW h, Bounded(h), NEW doc \in Documents
    PROVE  Bounded(Updated(h, doc)) /\ Updated(h, doc).saved = h.saved
<1>1. /\ h.value \in Documents /\ h.past \in Seq(Documents) /\ Len(h.past) <= Limit
      /\ <<>> \in Seq(Documents) /\ Len(<<>>) <= Limit
  BY EditorAssumption DEF Bounded, Histories
<1>2. /\ Push(h.past, h.value) \in Seq(Documents)
      /\ Len(Push(h.past, h.value)) <= Limit
  BY <1>1, PushIsBounded
<1> DEFINE p == Push(h.past, h.value)
           g == [h EXCEPT !.value = doc, !.past = p, !.future = <<>>]
<1>3. Bounded(g) /\ g.saved = h.saved
  <2> HIDE DEF p
  <2>1. QED
    BY <1>1, <1>2 DEF p, Bounded, Histories
<1>4. QED
  BY <1>3 DEF Updated

LEMMA RedoneIsBounded ==
    ASSUME NEW h, Bounded(h)
    PROVE  Bounded(Redone(h)) /\ Redone(h).saved = h.saved
<1>1. /\ h.value \in Documents /\ h.past \in Seq(Documents) /\ Len(h.past) <= Limit
      /\ h.future \in Seq(Documents) /\ Len(h.future) <= Limit
  BY DEF Bounded, Histories
<1>2. CASE h.future = <<>>
  BY <1>2 DEF Redone
<1>3. CASE h.future # <<>>
  <2>1. /\ Head(h.future) \in Documents /\ Tail(h.future) \in Seq(Documents)
        /\ Len(Tail(h.future)) <= Limit
    BY <1>1, <1>3, EditorAssumption
  <2>2. /\ Push(h.past, h.value) \in Seq(Documents)
        /\ Len(Push(h.past, h.value)) <= Limit
    BY <1>1, PushIsBounded
  <2> DEFINE v == Head(h.future)
             p == Push(h.past, h.value)
             f == Tail(h.future)
             g == [h EXCEPT !.value = v, !.past = p, !.future = f]
  <2>3. Bounded(g) /\ g.saved = h.saved
    <3> HIDE DEF v, p, f
    <3>1. v \in Documents /\ p \in Seq(Documents) /\ f \in Seq(Documents)
          /\ Len(p) <= Limit /\ Len(f) <= Limit
      BY <2>1, <2>2 DEF v, p, f
    <3>2. QED
      BY <3>1 DEF Bounded, Histories
  <2>4. Redone(h) = g
    BY <1>3 DEF Redone, Bounded, Histories
  <2>5. QED
    BY <2>3, <2>4
<1>4. QED
  BY <1>2, <1>3

LEMMA UndoneIsBounded ==
    ASSUME NEW h, Bounded(h)
    PROVE  Bounded(Undone(h)) /\ Undone(h).saved = h.saved
<1>1. /\ h.value \in Documents /\ h.past \in Seq(Documents) /\ Len(h.past) <= Limit
      /\ h.future \in Seq(Documents) /\ Len(h.future) <= Limit
      /\ Limit \in Nat /\ Limit >= 1
  BY EditorAssumption DEF Bounded, Histories
<1>2. CASE h.past = <<>>
  BY <1>2 DEF Undone
<1>3. CASE h.past # <<>>
  <2> DEFINE kept == IF Len(h.future) < Limit THEN h.future ELSE SubSeq(h.future, 1, Limit - 1)
             top == h.past[Len(h.past)]
             rest == SubSeq(h.past, 1, Len(h.past) - 1)
  <2>1. Len(h.past) \in Nat /\ Len(h.past) >= 1 /\ Len(h.future) \in Nat
    BY <1>1, <1>3
  <2>2. top \in Documents
    BY <1>1, <2>1
  <2>3. rest \in Seq(Documents) /\ Len(rest) = Len(h.past) - 1
    BY <1>1, <2>1
  <2>4. kept \in Seq(Documents) /\ Len(kept) <= Limit - 1
    BY <1>1, <2>1
  <2>5. <<h.value>> \o kept \in Seq(Documents) /\ Len(<<h.value>> \o kept) <= Limit
    BY <1>1, <2>4
  <2> DEFINE f == <<h.value>> \o kept
             g == [h EXCEPT !.value = top, !.past = rest, !.future = f]
  <2>6. Bounded(g) /\ g.saved = h.saved
    <3>1. Len(rest) <= Limit
      BY <1>1, <2>1, <2>3
    <3> HIDE DEF top, rest, f
    <3>2. f \in Seq(Documents) /\ Len(f) <= Limit
      BY <2>5 DEF f
    <3>3. QED
      BY <2>2, <2>3, <3>1, <3>2 DEF Bounded, Histories
  <2>7. Undone(h) = g
    BY <1>3 DEF Undone
  <2>8. QED
    BY <2>6, <2>7
<1>4. QED
  BY <1>2, <1>3

-----------------------------------------------------------------------------
LEMMA InitHolds == EditorInit => IInv
<1> SUFFICES ASSUME EditorInit PROVE IInv
  OBVIOUS
<1>1. PICK doc \in Documents : store = <<doc>> /\ hasSecret = doc.secret /\ hist = Loaded(doc)
  BY DEF EditorInit
<1>2. Current = 1 /\ store[1] = doc /\ store \in Seq(Documents)
  BY <1>1 DEF Current
<1>3. hasSecret \in BOOLEAN
  BY <1>1 DEF Documents
<1>4. /\ request = [k \in AllKinds |-> NoRequest]
      /\ upload = NoUpload /\ revision = 1 /\ busy = FALSE
  BY DEF EditorInit
<1>5. Bounded(hist)
  BY <1>1, EditorAssumption DEF Bounded, Histories, Loaded
<1>6. EditorTypeOK
  <2>1. Current \in 1 .. MaxRevision /\ revision \in 1 .. Current
    BY <1>2, <1>4, EditorAssumption
  <2>2. request \in [AllKinds -> RequestStates \cup {NoRequest}] /\ upload \in Uploads \cup {NoUpload}
    BY <1>4
  <2>3. QED
    BY <1>2, <1>3, <1>4, <1>5, <2>1, <2>2 DEF EditorTypeOK, Bounded
<1>7. BaselineIsRevision
  BY <1>1, <1>2, <1>4 DEF BaselineIsRevision, Loaded
<1>8. AnswersExist /\ DeploysWhatWasShown
  BY <1>4 DEF AnswersExist, DeploysWhatWasShown, NoRequest, AllKinds
<1>9. QED
  BY <1>6, <1>7, <1>8 DEF IInv

\* A step that touches only the draft: an edit, an upload, undo, redo.
LEMMA EditingStep ==
    ASSUME IInv, EditorOnly, upload' \in Uploads \cup {NoUpload},
           Bounded(hist'), hist'.saved = hist.saved
    PROVE  IInv'
BY DEF IInv, EditorOnly, EditorTypeOK, Bounded, AnswersExist, BaselineIsRevision,
       DeploysWhatWasShown, Current

\* The server appends a revision; all older ones stay what they were.
LEMMA WriteAppends ==
    ASSUME IInv, Current < MaxRevision, NEW doc \in Documents, NEW flag \in BOOLEAN,
           Write(doc, flag)
    PROVE  /\ store' \in Seq(Documents) /\ hasSecret' \in BOOLEAN
           /\ Current \in Nat /\ Current' = Current + 1 /\ Current' \in 1 .. MaxRevision
           /\ \A r \in 1 .. Current : store'[r] = store[r]
           /\ SameDraft(store'[Current + 1], doc)
<1>1. Stored(doc, flag) \in Documents /\ SameDraft(Stored(doc, flag), doc)
  BY DEF Stored, Documents, SameDraft
<1>2. /\ store \in Seq(Documents) /\ store' = Append(store, Stored(doc, flag)) /\ hasSecret' = flag
      /\ MaxRevision \in Nat
  BY EditorAssumption DEF IInv, EditorTypeOK, Write
<1>3. Len(store) \in Nat /\ Len(store') = Len(store) + 1
  BY <1>2
<1>4. QED
  BY <1>1, <1>2, <1>3 DEF Current

\* A request is sent: its revision is the editor's.
LEMMA SendStep ==
    ASSUME IInv, busy' \in BOOLEAN,
           NEW k \in AllKinds, NEW phase \in Phases, Send(k, phase, revision),
           k = "deploy" /\ phase \in {"deploy", "sent", "answered"} => ~Dirty
    PROVE  IInv'
<1> DEFINE new == [phase |-> phase, doc |-> hist.value, base |-> revision, rev |-> revision]
<1>1. new \in RequestStates /\ new # NoRequest /\ revision \in 1 .. Current
  <2>1. hist.value \in Documents /\ revision \in 1 .. Current /\ Current \in Nat
    BY DEF IInv, EditorTypeOK, Histories, Current
  <2>2. new \in RequestStates
    BY <2>1 DEF RequestStates
  <2>3. new # NoRequest
    BY DEF NoRequest, Phases
  <2>4. QED
    BY <2>1, <2>2, <2>3
<1>2. request' = [request EXCEPT ![k] = new]
      /\ UNCHANGED <<store, hasSecret, hist, revision, upload>>
  BY DEF Send
<1>3. EditorTypeOK'
  BY <1>1, <1>2 DEF IInv, EditorTypeOK, Current
<1>4. AnswersExist' /\ BaselineIsRevision'
  BY <1>1, <1>2 DEF IInv, EditorTypeOK, AnswersExist, BaselineIsRevision, Current
<1>5. DeploysWhatWasShown'
  <2>1. CASE k # "deploy"
    BY <1>2, <2>1 DEF IInv, EditorTypeOK, DeploysWhatWasShown, SameDraft, AllKinds
  <2>2. CASE k = "deploy" /\ phase \in {"deploy", "sent", "answered"}
    <3>1. request'["deploy"] = new
      BY <1>2, <2>2 DEF IInv, EditorTypeOK
    <3>2. hist.value = store[revision]
      BY <2>2 DEF IInv, BaselineIsRevision, Dirty
    <3>3. QED
      BY <1>2, <3>1, <3>2 DEF DeploysWhatWasShown, SameDraft
  <2>3. CASE k = "deploy" /\ phase \notin {"deploy", "sent", "answered"}
    BY <1>2, <2>3 DEF IInv, EditorTypeOK, DeploysWhatWasShown
  <2>4. QED
    BY <2>1, <2>2, <2>3
<1>6. QED
  BY <1>3, <1>4, <1>5 DEF IInv

\* A step that moves one request on, or ends it, and may take its revision.
LEMMA AnswerStep ==
    ASSUME IInv, UNCHANGED <<store, hasSecret, upload>>, busy' \in BOOLEAN,
           NEW k \in AllKinds, NEW new \in RequestStates \cup {NoRequest},
           request[k] # NoRequest, request' = [request EXCEPT ![k] = new],
           new # NoRequest => new.rev \in 1 .. Current,
           k = "deploy" /\ new # NoRequest =>
               \/ new.phase \notin {"deploy", "sent", "answered"}
               \/ /\ request[k].phase \in {"deploy", "sent", "answered"}
                  /\ new.rev = request[k].rev /\ new.doc = request[k].doc,
           Bounded(hist'), revision' \in 1 .. Current, hist'.saved = store[revision']
    PROVE  IInv'
<1>1. EditorTypeOK'
  BY DEF IInv, EditorTypeOK, Bounded, Current
<1>2. AnswersExist' /\ BaselineIsRevision'
  BY DEF IInv, EditorTypeOK, AnswersExist, BaselineIsRevision, Current
<1>3. DeploysWhatWasShown'
  <2>1. CASE k # "deploy"
    BY <2>1 DEF IInv, EditorTypeOK, DeploysWhatWasShown, SameDraft, AllKinds
  <2>2. CASE k = "deploy"
    <3>1. request'["deploy"] = new
      BY <2>2 DEF IInv, EditorTypeOK
    <3>2. CASE new = NoRequest
      BY <3>1, <3>2 DEF DeploysWhatWasShown, NoRequest
    <3>3. CASE new # NoRequest
      BY <2>2, <3>1, <3>3 DEF IInv, DeploysWhatWasShown, SameDraft
    <3>4. QED
      BY <3>2, <3>3
  <2>3. QED
    BY <2>1, <2>2
<1>4. QED
  BY <1>1, <1>2, <1>3 DEF IInv

LEMMA NextEdits ==
    ASSUME IInv, Edit \/ Undo \/ Redo \/ UploadBegins \/ UploadEnds
    PROVE  IInv'
<1>1. Bounded(hist) /\ hist.value \in Documents /\ upload \in Uploads \cup {NoUpload}
  BY DEF IInv, EditorTypeOK, Bounded, Histories
<1>2. CASE Edit
  <2>1. PICK t \in Texts : hist' = Updated(hist, [hist.value EXCEPT !.text = t])
    BY <1>2 DEF Edit
  <2>2. [hist.value EXCEPT !.text = t] \in Documents
    BY <1>1 DEF Documents
  <2>3. QED
    BY <1>1, <1>2, <2>1, <2>2, UpdatedIsBounded, EditingStep DEF Edit
<1>3. CASE Undo
  BY <1>1, <1>3, UndoneIsBounded, EditingStep DEF Undo
<1>4. CASE Redo
  BY <1>1, <1>4, RedoneIsBounded, EditingStep DEF Redo
<1>5. CASE UploadBegins
  <2>1. upload' \in Uploads /\ UNCHANGED hist
    BY <1>1, <1>5 DEF UploadBegins, Uploads, Documents
  <2>2. QED
    BY <1>1, <1>5, <2>1, EditingStep DEF UploadBegins
<1>6. CASE UploadEnds
  <2>1. upload \in Uploads
    <3>1. NoUpload.active = FALSE
      BY DEF NoUpload
    <3>2. upload.active
      BY <1>6 DEF UploadEnds
    <3>3. upload # NoUpload
      BY <3>1, <3>2
    <3>4. QED
      BY <1>1, <3>3
  <2>2. [hist.value EXCEPT !.text = upload.text, !.prompt = upload.prompt] \in Documents
    BY <1>1, <2>1 DEF Uploads, Documents
  <2>3. CASE UNCHANGED hist
    BY <1>1, <1>6, <2>3, EditingStep DEF UploadEnds
  <2>4. CASE ~UNCHANGED hist
    BY <1>1, <1>6, <2>2, <2>4, UpdatedIsBounded, EditingStep DEF UploadEnds
  <2>5. QED
    BY <2>3, <2>4
<1>7. QED
  BY <1>2, <1>3, <1>4, <1>5, <1>6

LEMMA NextSends ==
    ASSUME IInv, \/ Save \/ Deploy
                 \/ \E k \in AllKinds : SendChange(k)
    PROVE  IInv'
<1>1. {"save", "deploy", "secret", "replace", "sound"} \subseteq AllKinds
  BY DEF AllKinds
<1>2. {"sent", "persist"} \subseteq Phases /\ busy \in BOOLEAN
  BY DEF Phases, IInv, EditorTypeOK
<1>3. CASE Save
  BY <1>1, <1>2, <1>3, SendStep DEF Save
<1>4. CASE Deploy
  <2>1. CASE Dirty
    BY <1>1, <1>2, <1>4, <2>1, SendStep DEF Deploy
  <2>2. CASE ~Dirty
    BY <1>1, <1>2, <1>4, <2>2, SendStep DEF Deploy
  <2>3. QED
    BY <2>1, <2>2
<1>5. CASE \E k \in AllKinds : SendChange(k)
  <2>1. PICK k \in AllKinds : SendChange(k)
    BY <1>5
  <2>2. k # "deploy" /\ Send(k, "sent", revision) /\ busy' \in BOOLEAN
    BY <1>2, <2>1 DEF SendChange
  <2>3. QED
    BY <1>2, <2>2, SendStep
<1>6. QED
  BY <1>3, <1>4, <1>5

\* What is requested of the server is a document, and so is what it stores.
LEMMA ChangeWrites ==
    ASSUME IInv, NEW k, NEW doc \in Documents, ServerChange(k, doc)
    PROVE  \E new \in Documents, flag \in BOOLEAN :
               Write(new, flag) /\ (k \notin {"secret", "sound", "replace"} => new = doc)
<1>1. store[Current] \in Documents /\ hasSecret \in BOOLEAN /\ TRUE \in BOOLEAN
  <2>1. Current \in 1 .. Len(store) /\ store \in Seq(Documents)
    BY DEF IInv, EditorTypeOK, Current
  <2>2. QED
    BY <2>1 DEF IInv, EditorTypeOK
<1>2. CASE k = "secret"
  BY <1>1, <1>2 DEF ServerChange
<1>3. CASE k = "sound"
  <2>1. PICK p \in Prompts : Write([store[Current] EXCEPT !.prompt = p], hasSecret)
    BY <1>3 DEF ServerChange
  <2>2. [store[Current] EXCEPT !.prompt = p] \in Documents
    BY <1>1 DEF Documents
  <2>3. QED
    BY <1>1, <1>3, <2>1, <2>2
<1>4. CASE k = "replace"
  BY <1>1, <1>4 DEF ServerChange
<1>5. CASE k \notin {"secret", "sound", "replace"}
  BY <1>1, <1>5 DEF ServerChange
<1>6. QED
  BY <1>2, <1>3, <1>4, <1>5

\* The server took a change: older answers stay, and a new one may be there.
LEMMA StoreGrows ==
    ASSUME IInv, UNCHANGED <<hist, revision, upload>>, busy' \in BOOLEAN,
           store' \in Seq(Documents), hasSecret' \in BOOLEAN,
           Current' = Current + 1, Current' \in 1 .. MaxRevision,
           \A r \in 1 .. Current : store'[r] = store[r],
           request' \in [AllKinds -> RequestStates \cup {NoRequest}],
           \A k \in AllKinds : request'[k] # NoRequest =>
               \/ request'[k] = request[k]
               \/ /\ request'[k].rev = Current + 1
                  /\ k = "deploy" => SameDraft(store'[Current + 1], request'[k].doc)
    PROVE  IInv'
<1>1. revision \in 1 .. Current /\ Current \in Nat
  BY DEF IInv, EditorTypeOK, Current
<1>2. EditorTypeOK'
  BY <1>1 DEF IInv, EditorTypeOK
<1>3. AnswersExist'
  BY <1>1 DEF IInv, AnswersExist
<1>4. BaselineIsRevision'
  BY <1>1 DEF IInv, BaselineIsRevision
<1>5. DeploysWhatWasShown'
  <2>1. SUFFICES ASSUME request'["deploy"].phase \in {"deploy", "sent", "answered"}
                 PROVE  SameDraft(store'[request'["deploy"].rev], request'["deploy"].doc)
    BY DEF DeploysWhatWasShown, SameDraft
  <2>2. "deploy" \in AllKinds /\ request'["deploy"] # NoRequest
    BY <2>1 DEF AllKinds, NoRequest
  <2>3. CASE request'["deploy"] = request["deploy"]
    <3>1. request["deploy"].rev \in 1 .. Current
      BY <2>2, <2>3 DEF IInv, AnswersExist
    <3>2. QED
      BY <2>1, <2>3, <3>1 DEF IInv, DeploysWhatWasShown
  <2>4. CASE request'["deploy"] # request["deploy"]
    BY <2>2, <2>4
  <2>5. QED
    BY <2>3, <2>4
<1>6. QED
  BY <1>2, <1>3, <1>4, <1>5 DEF IInv

LEMMA NextServes ==
    ASSUME IInv, \/ \E k \in AllKinds : Serve(k) \/ Refuse(k)
                 \/ SavedElsewhere
    PROVE  IInv'
<1>1. CASE SavedElsewhere
  <2>1. PICK doc \in Documents : Write(doc, hasSecret)
    BY <1>1 DEF SavedElsewhere
  <2>2. hasSecret \in BOOLEAN /\ busy \in BOOLEAN /\ request \in [AllKinds -> RequestStates \cup {NoRequest}]
    BY DEF IInv, EditorTypeOK
  <2>3. QED
    BY <1>1, <2>1, <2>2, WriteAppends, StoreGrows DEF SavedElsewhere
<1>2. ASSUME NEW k \in AllKinds, AtServer(k), UNCHANGED <<hist, revision, busy, upload>>,
             Serve(k) \/ Refuse(k)
      PROVE  IInv'
  <2>1. request[k].phase \in {"sent", "persist"} /\ (request[k].phase = "sent" => k # "deploy")
    BY <1>2 DEF AtServer
  <2>2. request[k] \in RequestStates /\ request[k] # NoRequest
    <3>1. NoRequest.phase = "none"
      BY DEF NoRequest
    <3>2. request[k] # NoRequest
      BY <2>1, <3>1
    <3>3. QED
      BY <3>2 DEF IInv, EditorTypeOK
  <2>3. request \in [AllKinds -> RequestStates \cup {NoRequest}] /\ busy \in BOOLEAN
    BY DEF IInv, EditorTypeOK
  <2>4. CASE Serve(k)
    <3> DEFINE next == IF request[k].phase = "sent" THEN "answered" ELSE "deploy"
    <3>1. Current < MaxRevision /\ ServerChange(k, request[k].doc)
      BY <2>4 DEF Serve
    <3>2. PICK phase \in {next, "refused"} :
              request' = [request EXCEPT ![k].phase = phase, ![k].rev = Current + 1]
      BY <2>4 DEF Serve
    <3> DEFINE new == [request[k] EXCEPT !.phase = phase, !.rev = Current + 1]
    <3>3. PICK doc \in Documents, flag \in BOOLEAN :
              Write(doc, flag) /\ (k \notin {"secret", "sound", "replace"} => doc = request[k].doc)
      BY <2>2, <3>1, ChangeWrites DEF RequestStates
    <3>4. /\ store' \in Seq(Documents) /\ hasSecret' \in BOOLEAN
          /\ Current \in Nat /\ Current' = Current + 1 /\ Current' \in 1 .. MaxRevision
          /\ \A r \in 1 .. Current : store'[r] = store[r]
          /\ SameDraft(store'[Current + 1], doc)
      BY <3>1, <3>3, WriteAppends
    <3>5. new \in RequestStates /\ new.rev = Current + 1 /\ new.doc = request[k].doc
      <4>1. phase \in Phases /\ Current + 1 \in Nat
        BY <3>4 DEF Phases
      <4>2. QED
        BY <2>2, <4>1 DEF RequestStates
    <3>6. request' = [request EXCEPT ![k] = new]
      BY <2>3, <3>2
    <3>7. request' \in [AllKinds -> RequestStates \cup {NoRequest}]
      BY <2>3, <3>5, <3>6
    <3>8. \A j \in AllKinds : request'[j] # NoRequest =>
              \/ request'[j] = request[j]
              \/ /\ request'[j].rev = Current + 1
                 /\ j = "deploy" => SameDraft(store'[Current + 1], request'[j].doc)
      BY <2>3, <3>3, <3>4, <3>5, <3>6
    <3>9. QED
      BY <1>2, <2>3, <3>4, <3>7, <3>8, StoreGrows
  <2>5. CASE Refuse(k)
    <3> DEFINE new == [request[k] EXCEPT !.phase = "refused"]
    <3>1. request' = [request EXCEPT ![k] = new] /\ UNCHANGED server
      BY <2>3, <2>5 DEF Refuse, server
    <3>2. new \in RequestStates /\ new.phase = "refused" /\ new.rev = request[k].rev
      BY <2>2 DEF RequestStates, Phases
    <3>3. Bounded(hist') /\ revision' \in 1 .. Current /\ hist'.saved = store[revision']
      BY <1>2 DEF IInv, EditorTypeOK, Bounded, BaselineIsRevision
    <3>4. request[k].rev \in 1 .. Current
      BY <2>2 DEF IInv, AnswersExist
    <3> HIDE DEF new
    <3>5. QED
      BY <1>2, <2>2, <2>3, <3>1, <3>2, <3>3, <3>4, AnswerStep DEF server
  <2>6. QED
    BY <1>2, <2>4, <2>5
<1>3. ASSUME NEW k \in AllKinds, Serve(k) \/ Refuse(k)
      PROVE  AtServer(k) /\ UNCHANGED <<hist, revision, busy, upload>>
  BY <1>3 DEF Serve, Refuse
<1>4. QED
  BY <1>1, <1>2, <1>3

\* An answer that is taken over: the draft, the baseline and the revision
\* come from the same revision of the server.
LEMMA TakenOver ==
    ASSUME IInv, NEW k \in AllKinds, request[k] # NoRequest
    PROVE  /\ request[k].rev \in 1 .. Current /\ store[request[k].rev] \in Documents
           /\ Bounded(hist)
           /\ Bounded(AcceptSaved(hist, store[request[k].rev]))
           /\ AcceptSaved(hist, store[request[k].rev]).saved = store[request[k].rev]
           /\ Bounded(Loaded(store[request[k].rev]))
           /\ Loaded(store[request[k].rev]).saved = store[request[k].rev]
<1>1. request[k].rev \in 1 .. Current /\ store \in Seq(Documents) /\ Bounded(hist)
  BY DEF IInv, AnswersExist, EditorTypeOK, Bounded
<1>2. store[request[k].rev] \in Documents
  BY <1>1 DEF Current
<1>3. QED
  <2> DEFINE doc == store[request[k].rev]
  <2>1. doc \in Documents /\ Bounded(hist)
    BY <1>1, <1>2
  <2> HIDE DEF doc
  <2>2. Bounded(AcceptSaved(hist, doc)) /\ AcceptSaved(hist, doc).saved = doc
    BY <2>1 DEF Bounded, Histories, AcceptSaved
  <2>3. Bounded(Loaded(doc)) /\ Loaded(doc).saved = doc
    BY <2>1, EditorAssumption DEF Bounded, Histories, Loaded
  <2>4. QED
    BY <1>1, <2>1, <2>2, <2>3 DEF doc

LEMMA NextAnswers ==
    ASSUME IInv, \/ SaveAnswered \/ SecretAnswered \/ Persisted \/ DeployServed
                 \/ DeployAnswered \/ ReplaceAnswered \/ SoundAnswered \/ WorkspaceLoaded
                 \/ \E k \in AllKinds : Refused(k)
    PROVE  IInv'
<1>1. {"save", "deploy", "secret", "replace", "sound"} = AllKinds
  BY DEF AllKinds
<1>2. /\ busy \in BOOLEAN /\ request \in [AllKinds -> RequestStates \cup {NoRequest}]
      /\ Bounded(hist) /\ revision \in 1 .. Current /\ hist.saved = store[revision]
  BY DEF IInv, EditorTypeOK, Bounded, BaselineIsRevision
<1>3. Current \in 1 .. Current /\ Current \in Nat
  BY <1>2 DEF Current, IInv, EditorTypeOK
<1>4. NoRequest.phase = "none"
  BY DEF NoRequest
<1>5. ASSUME NEW k \in AllKinds, request[k].phase # "none"
      PROVE  request[k] \in RequestStates /\ request[k] # NoRequest
  BY <1>2, <1>4, <1>5
<1>6. CASE SaveAnswered
  <2>1. request["save"] # NoRequest
    BY <1>1, <1>5, <1>6 DEF SaveAnswered, Answered
  <2>2. QED
    BY <1>1, <1>2, <1>6, <2>1, TakenOver, AnswerStep
    DEF SaveAnswered, Answered, Close, AcceptAnswer
<1>7. CASE SecretAnswered
  <2>1. request["secret"] # NoRequest
    BY <1>1, <1>5, <1>7 DEF SecretAnswered, Answered
  <2>2. QED
    BY <1>1, <1>2, <1>7, <2>1, TakenOver, AnswerStep
    DEF SecretAnswered, Answered, Close, AcceptAnswer
<1>8. CASE Persisted
  <2> DEFINE new == [request["deploy"] EXCEPT !.phase = "sent"]
  <2>1. request["deploy"] \in RequestStates /\ request["deploy"] # NoRequest
        /\ request["deploy"].phase = "deploy"
    BY <1>1, <1>5, <1>8 DEF Persisted
  <2>2. new \in RequestStates /\ new.rev = request["deploy"].rev /\ new.doc = request["deploy"].doc
    BY <2>1 DEF RequestStates, Phases
  <2>3. request' = [request EXCEPT !["deploy"] = new]
    BY <1>1, <1>2, <1>8 DEF Persisted
  <2> HIDE DEF new
  <2>4. QED
    BY <1>1, <1>2, <1>8, <2>1, <2>2, <2>3, TakenOver, AnswerStep DEF Persisted, AcceptAnswer
<1>9. CASE DeployServed
  <2>1. request["deploy"] \in RequestStates /\ request["deploy"] # NoRequest
        /\ request["deploy"].phase = "sent"
    BY <1>1, <1>5, <1>9 DEF DeployServed
  <2>2. PICK phase \in {"answered", "refused"} : request' = [request EXCEPT !["deploy"].phase = phase]
    BY <1>9 DEF DeployServed
  <2> DEFINE new == [request["deploy"] EXCEPT !.phase = phase]
  <2>3. new \in RequestStates /\ new.rev = request["deploy"].rev /\ new.doc = request["deploy"].doc
    BY <2>1 DEF RequestStates, Phases
  <2>4. request' = [request EXCEPT !["deploy"] = new]
    BY <1>1, <1>2, <2>2
  <2> HIDE DEF new
  <2>5. QED
    BY <1>1, <1>2, <1>9, <2>1, <2>3, <2>4, TakenOver, AnswerStep DEF DeployServed
<1>10. CASE DeployAnswered
  <2>1. request["deploy"] # NoRequest
    BY <1>1, <1>5, <1>10 DEF DeployAnswered, Answered
  <2>2. QED
    BY <1>1, <1>2, <1>10, <2>1, AnswerStep DEF DeployAnswered, Answered, Close
<1>11. CASE ReplaceAnswered
  <2>1. request["replace"] # NoRequest
    BY <1>1, <1>5, <1>11 DEF ReplaceAnswered, Answered
  <2>2. QED
    BY <1>1, <1>2, <1>11, <2>1, TakenOver, AnswerStep DEF ReplaceAnswered, Answered, Close, Reset
<1>12. CASE SoundAnswered
  <2> DEFINE new == [request["sound"] EXCEPT !.phase = "fetch", !.rev = Current]
  <2>1. request["sound"] \in RequestStates /\ request["sound"] # NoRequest
    BY <1>1, <1>5, <1>12 DEF SoundAnswered
  <2>2. new \in RequestStates /\ new.rev = Current
    BY <1>3, <2>1 DEF RequestStates, Phases
  <2>3. request' = [request EXCEPT !["sound"] = new]
    BY <1>1, <1>2, <1>12 DEF SoundAnswered
  <2> HIDE DEF new
  <2>4. QED
    BY <1>1, <1>2, <1>3, <1>12, <2>1, <2>2, <2>3, AnswerStep DEF SoundAnswered
<1>13. CASE WorkspaceLoaded
  <2>1. request["sound"] # NoRequest
    BY <1>1, <1>5, <1>13 DEF WorkspaceLoaded
  <2>2. QED
    BY <1>1, <1>2, <1>13, <2>1, TakenOver, AnswerStep DEF WorkspaceLoaded, Close, Reset
<1>14. CASE \E k \in AllKinds : Refused(k)
  <2>1. PICK k \in AllKinds : Refused(k)
    BY <1>14
  <2>2. request[k] # NoRequest /\ busy' \in BOOLEAN
    BY <1>5, <2>1 DEF Refused
  <2>3. QED
    BY <1>1, <1>2, <2>1, <2>2, AnswerStep DEF Refused, Close
<1>15. QED
  BY <1>6, <1>7, <1>8, <1>9, <1>10, <1>11, <1>12, <1>13, <1>14

LEMMA StepHolds == IInv /\ [EditorNext]_editorVars => IInv'
<1>1. ASSUME IInv, UNCHANGED editorVars PROVE IInv'
  BY <1>1 DEF IInv, EditorTypeOK, AnswersExist, BaselineIsRevision, DeploysWhatWasShown, Current, editorVars
<1>2. ASSUME IInv, EditorNext PROVE IInv'
  BY <1>2, NextEdits, NextSends, NextServes, NextAnswers DEF EditorNext
<1>3. QED
  BY <1>1, <1>2

LEMMA AlwaysIInv == EditorSpec => []IInv
BY InitHolds, StepHolds, PTL DEF EditorSpec

\* Whatever requests overlap, the baseline is the document of the revision
\* that the next request names in If-Match (App.tsx).
THEOREM BaselineIsAlwaysRevision == EditorSpec => []BaselineIsRevision
<1>1. IInv => BaselineIsRevision
  BY DEF IInv
<1>2. QED
  BY <1>1, AlwaysIInv, PTL

\* What handleDeploy deploys is what was shown when the button was pressed.
THEOREM DeploymentsAreWhatWasShown == EditorSpec => []DeploysWhatWasShown
<1>1. IInv => DeploysWhatWasShown
  BY DEF IInv
<1>2. QED
  BY <1>1, AlwaysIInv, PTL

\* Types, and stacks that never outgrow the limit (historyState.ts).
THEOREM EditorTypeCorrect == EditorSpec => []EditorTypeOK
<1>1. IInv => EditorTypeOK
  BY DEF IInv
<1>2. QED
  BY <1>1, AlwaysIInv, PTL
-----------------------------------------------------------------------------
(* One undo or one redo takes back what changed the draft. *)

\* What was pushed is what an undo finds.
LEMMA PushedIsLast ==
    ASSUME NEW entries \in Seq(Documents), Len(entries) <= Limit, NEW doc \in Documents
    PROVE  LET p == Push(entries, doc) IN p # <<>> /\ p[Len(p)] = doc
<1>1. Limit \in Nat /\ Limit >= 1 /\ Len(entries) \in Nat
  BY EditorAssumption
<1>2. CASE Len(entries) < Limit
  BY <1>1, <1>2 DEF Push
<1>3. CASE ~(Len(entries) < Limit)
  <2>1. entries # <<>>
    BY <1>1, <1>3
  <2>2. Tail(entries) \in Seq(Documents)
    BY <2>1
  <2> DEFINE t == Tail(entries)
  <2> HIDE DEF t
  <2>3. t \in Seq(Documents)
    BY <2>2 DEF t
  <2>4. Append(t, doc) # <<>> /\ Append(t, doc)[Len(Append(t, doc))] = doc
    BY <2>3
  <2>5. Push(entries, doc) = Append(t, doc)
    BY <1>3 DEF Push, t
  <2>6. QED
    BY <2>4, <2>5
<1>4. QED
  BY <1>2, <1>3

\* A history whose stack of undos ends with a document gives it back.
LEMMA UndoFindsLast ==
    ASSUME NEW h, Bounded(h), NEW g, NEW doc, g.past # <<>>, g.past[Len(g.past)] = doc,
           DOMAIN g = DOMAIN h
    PROVE  Undone(g).value = doc
BY DEF Undone, Bounded, Histories

LEMMA UpdateIsUndone ==
    ASSUME NEW h, Bounded(h), NEW doc \in Documents, doc # h.value
    PROVE  Undone(Updated(h, doc)).value = h.value
<1>1. h.value \in Documents /\ h.past \in Seq(Documents) /\ Len(h.past) <= Limit
  BY DEF Bounded, Histories
<1> DEFINE p == Push(h.past, h.value)
           g == [h EXCEPT !.value = doc, !.past = p, !.future = <<>>]
<1>2. p # <<>> /\ p[Len(p)] = h.value
  BY <1>1, PushedIsLast
<1>3. g.past = p /\ DOMAIN g = DOMAIN h
  <2> HIDE DEF p
  <2>1. QED
    BY DEF Bounded, Histories
<1>4. Updated(h, doc) = g
  BY DEF Updated
<1> HIDE DEF p, g
<1>5. QED
  BY <1>2, <1>3, <1>4, UndoFindsLast

LEMMA RedoIsUndone ==
    ASSUME NEW h, Bounded(h), h.future # <<>>
    PROVE  Undone(Redone(h)).value = h.value
<1>1. h.value \in Documents /\ h.past \in Seq(Documents) /\ Len(h.past) <= Limit
  BY DEF Bounded, Histories
<1> DEFINE p == Push(h.past, h.value)
           g == [h EXCEPT !.value = Head(h.future), !.future = Tail(h.future), !.past = p]
<1>2. p # <<>> /\ p[Len(p)] = h.value
  BY <1>1, PushedIsLast
<1>3. g.past = p /\ DOMAIN g = DOMAIN h
  <2> HIDE DEF p
  <2>1. QED
    BY DEF Bounded, Histories
<1>4. Redone(h) = g
  BY DEF Redone
<1> HIDE DEF p, g
<1>5. QED
  BY <1>2, <1>3, <1>4, UndoFindsLast

LEMMA UndoIsRedone ==
    ASSUME NEW h, Bounded(h), h.past # <<>>
    PROVE  Redone(Undone(h)).value = h.value
<1>1. /\ h.value \in Documents /\ h.future \in Seq(Documents)
      /\ Limit \in Nat /\ Limit >= 1
  BY EditorAssumption DEF Bounded, Histories
<1> DEFINE kept == IF Len(h.future) < Limit THEN h.future ELSE SubSeq(h.future, 1, Limit - 1)
           f == <<h.value>> \o kept
           top == h.past[Len(h.past)]
           rest == SubSeq(h.past, 1, Len(h.past) - 1)
           g == [h EXCEPT !.value = top, !.past = rest, !.future = f]
<1>2. kept \in Seq(Documents)
  BY <1>1
<1>3. f # <<>> /\ Head(f) = h.value
  <2> HIDE DEF kept
  <2>1. QED
    BY <1>1, <1>2
<1>4. Undone(h) = g
  BY DEF Undone
<1>5. g.future = f /\ DOMAIN g = {"value", "past", "future", "saved"}
  <2> HIDE DEF top, rest, f
  <2>1. QED
    BY DEF Bounded, Histories
<1> HIDE DEF f, g
<1>6. Redone(g).value = Head(f)
  BY <1>3, <1>5 DEF Redone
<1>7. QED
  BY <1>3, <1>4, <1>6

\* What closes, opens or answers a request is seen in it.
LEMMA RequestsTell ==
    ASSUME IInv, EditorNext, UNCHANGED request, hist' # hist
    PROVE  Edit \/ Undo \/ Redo \/ UploadEnds
<1>1. request \in [AllKinds -> RequestStates \cup {NoRequest}]
  BY DEF IInv, EditorTypeOK
<1>2. ASSUME NEW k \in AllKinds, request[k].phase # "none", Close(k)
      PROVE  FALSE
  <2>1. request'[k] = NoRequest
    BY <1>1, <1>2 DEF Close
  <2>2. NoRequest.phase = "none"
    BY DEF NoRequest
  <2>3. QED
    BY <1>2, <2>1, <2>2
<1>3. {"save", "deploy", "secret", "replace", "sound"} = AllKinds
  BY DEF AllKinds
<1>4. ~SaveAnswered /\ ~SecretAnswered /\ ~ReplaceAnswered /\ ~WorkspaceLoaded
  BY <1>2, <1>3 DEF SaveAnswered, SecretAnswered, ReplaceAnswered, WorkspaceLoaded, Answered
<1>5. ~Persisted
  <2>1. SUFFICES ASSUME Persisted PROVE FALSE
    OBVIOUS
  <2>2. request["deploy"].phase = "deploy"
    BY <2>1 DEF Persisted
  <2>3. request["deploy"] \in RequestStates
    BY <1>1, <1>3, <2>2 DEF NoRequest
  <2> DEFINE new == [request["deploy"] EXCEPT !.phase = "sent"]
  <2>4. request' = [request EXCEPT !["deploy"] = new]
    BY <1>1, <1>3, <2>1 DEF Persisted
  <2>5. new.phase = "sent"
    BY <2>3 DEF RequestStates
  <2> HIDE DEF new
  <2>6. request'["deploy"] = new
    BY <1>1, <1>3, <2>4
  <2>7. QED
    BY <2>2, <2>5, <2>6
<1>6. /\ UploadBegins \/ Save \/ Deploy \/ DeployServed \/ SavedElsewhere
         \/ DeployAnswered \/ SoundAnswered => UNCHANGED hist
      /\ \A k \in AllKinds : SendChange(k) \/ Serve(k) \/ Refuse(k) \/ Refused(k) => UNCHANGED hist
  BY DEF UploadBegins, Save, Deploy, Send, DeployServed, SavedElsewhere, DeployAnswered,
     SoundAnswered, SendChange, Serve, Refuse, Refused
<1>7. QED
  BY <1>4, <1>5, <1>6 DEF EditorNext

\* An edit, an undo, a redo or a prompt that was uploaded can be taken back by
\* one undo or one redo (historyState.ts), whatever the limit of the stacks.
THEOREM OneStepBackAlways == EditorSpec => OneStepBack
<1>1. ASSUME IInv, [EditorNext]_editorVars, request' = request, hist'.value # hist.value
      PROVE  hist.value \in {Undone(hist').value, Redone(hist').value}
  <2>1. hist' # hist /\ EditorNext
    BY <1>1 DEF editorVars
  <2>2. Edit \/ Undo \/ Redo \/ UploadEnds
    BY <1>1, <2>1, RequestsTell
  <2>3. Bounded(hist) /\ hist.value \in Documents
    BY <1>1 DEF IInv, EditorTypeOK, Bounded, Histories
  <2>4. ASSUME NEW doc \in Documents, hist' = Updated(hist, doc)
        PROVE  hist.value = Undone(hist').value
    <3>1. doc # hist.value
      BY <1>1, <2>4 DEF Updated
    <3>2. QED
      BY <2>3, <2>4, <3>1, UpdateIsUndone
  <2>5. CASE Edit
    <3>1. PICK t \in Texts : hist' = Updated(hist, [hist.value EXCEPT !.text = t])
      BY <2>5 DEF Edit
    <3>2. [hist.value EXCEPT !.text = t] \in Documents
      BY <2>3 DEF Documents
    <3>3. QED
      BY <2>4, <3>1, <3>2
  <2>6. CASE Undo
    BY <2>3, <2>6, UndoIsRedone DEF Undo
  <2>7. CASE Redo
    BY <2>3, <2>7, RedoIsUndone DEF Redo
  <2>8. CASE UploadEnds
    <3>1. hist' = Updated(hist, [hist.value EXCEPT !.text = upload.text, !.prompt = upload.prompt])
      BY <2>1, <2>8 DEF UploadEnds
    <3>2. upload \in Uploads
      BY <1>1, <2>8 DEF IInv, EditorTypeOK, UploadEnds, NoUpload
    <3>3. [hist.value EXCEPT !.text = upload.text, !.prompt = upload.prompt] \in Documents
      BY <2>3, <3>2 DEF Uploads, Documents
    <3>4. QED
      BY <2>4, <3>1, <3>3
  <2>9. QED
    BY <2>2, <2>5, <2>6, <2>7, <2>8
<1>2. IInv /\ [EditorNext]_editorVars =>
        [request' = request /\ hist'.value # hist.value =>
             hist.value \in {Undone(hist').value, Redone(hist').value}]_editorVars
  BY <1>1
<1>3. QED
  BY <1>2, AlwaysIInv, PTL DEF EditorSpec, OneStepBack
===============================================================================
