------------------------------- MODULE MCPeople -------------------------------
(***************************************************************************)
(* Those who use the system, on small sets: users, logins and sessions     *)
(* (Sessions) and an admin at the editor (Editor).  They share no state,   *)
(* so a behaviour shows one of them and the other rests.  The initial      *)
(* state chooses which, and for the editor one of three selections of the  *)
(* operations whose answers may cross.  The third has room for one more    *)
(* revision, so that two of its requests succeed before either answers.    *)
(***************************************************************************)
EXTENDS Sessions, Editor

CONSTANTS Saving, Replacing, Crossing   \* the three selections

ASSUME PeopleAssumption == Saving \cup Replacing \cup Crossing = Kinds

VARIABLE scene   \* {"sessions"}, or the operations used in the editor

allVars == <<vars, editorVars, scene>>

MCInit ==
    /\ scene \in {{"sessions"}, Saving, Replacing, Crossing}
    /\ Init /\ EditorInit
    /\ scene = {"sessions"} => store[1] = CHOOSE doc \in Documents : TRUE

\* Users are interchangeable: this is the first to exist.
First == CHOOSE u \in Users : TRUE

MCNext ==
    /\ \/ /\ scene = {"sessions"} /\ Next /\ UNCHANGED editorVars
          /\ (\E u \in Users : Exists(u)') => Exists(First)'
       \/ /\ scene # {"sessions"} /\ EditorNext /\ UNCHANGED vars
          /\ scene # Crossing => Current' < MaxRevision
          /\ \A k \in Kinds \ scene : request'[k] = NoRequest
    /\ UNCHANGED scene

\* The interval of a status stream runs off.
MCSpec ==
    /\ MCInit /\ [][MCNext]_allVars
    /\ \A s \in Session : WF_vars(scene = {"sessions"} /\ Revalidate(s))
=============================================================================
