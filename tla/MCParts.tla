------------------------------ MODULE MCParts ------------------------------
(***************************************************************************)
(* Small instances of the parts that share no state in these models: the   *)
(* private desktop, the capture of a page, a page's load, downloads, the   *)
(* pipe to the worker, one action in a page, and the installation.  Every  *)
(* behaviour is one of one part; the others stay in one initial state.     *)
(***************************************************************************)
EXTENDS Desktop, Capture, PageLoad, Downloads, WorkerPipe, Acts, Install

VARIABLE part  \* the part that this behaviour is about

PartsInit ==
    /\ part \in {"desktop", "capture", "load", "downloads", "pipe", "act", "install"}
    /\ Init_Desktop /\ Init_Capture /\ Init_PageLoad /\ Init_Downloads
    /\ Init_WorkerPipe /\ Init_Acts /\ Init_Install
    \* A part that this behaviour is not about has one initial state.
    /\ part # "capture" => /\ policy = "allow" /\ wanted = "image"
                           /\ \A d \in Documents : ~page.kept[d].secret /\ ~frame.kept[d].secret
    /\ part # "pipe" => \A r \in Requests : kind[r] = "other"
    /\ part # "act" => meaning = CHOOSE m \in Meanings : TRUE

PartsNext ==
    \/ /\ part = "desktop" /\ Next_Desktop
       /\ UNCHANGED <<part, capVars, loadVars, fileVars, pipeVars, actVars, installVars>>
    \/ /\ part = "capture" /\ Next_Capture
       /\ UNCHANGED <<part, deskVars, loadVars, fileVars, pipeVars, actVars, installVars>>
    \/ /\ part = "load" /\ Next_PageLoad
       /\ UNCHANGED <<part, deskVars, capVars, fileVars, pipeVars, actVars, installVars>>
    \/ /\ part = "downloads" /\ Next_Downloads
       /\ UNCHANGED <<part, deskVars, capVars, loadVars, pipeVars, actVars, installVars>>
    \/ /\ part = "pipe" /\ Next_WorkerPipe
       /\ UNCHANGED <<part, deskVars, capVars, loadVars, fileVars, actVars, installVars>>
    \/ /\ part = "act" /\ Next_Acts
       /\ UNCHANGED <<part, deskVars, capVars, loadVars, fileVars, pipeVars, installVars>>
    \/ /\ part = "install" /\ Next_Install
       /\ UNCHANGED <<part, deskVars, capVars, loadVars, fileVars, pipeVars, actVars>>

PartsSpec ==
    /\ PartsInit
    /\ [][PartsNext]_<<part, deskVars, capVars, loadVars, fileVars, pipeVars, actVars, installVars>>

\* The type invariants of the parts: what each variable of the code may hold.
PartsTypeOK ==
    /\ part = "desktop" => DesktopTypeOK
    /\ part = "capture" => CaptureTypeOK
    /\ part = "load" => PageLoadTypeOK
    /\ part = "downloads" => DownloadsTypeOK
    /\ part = "pipe" => PipeTypeOK
    /\ part = "act" => ActsTypeOK
    /\ part = "install" => InstallTypeOK
=============================================================================
