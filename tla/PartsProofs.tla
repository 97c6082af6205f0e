------------------------------ MODULE PartsProofs ------------------------------
(***************************************************************************)
(* The specification that the run of the parts checks implements that of   *)
(* every part, so that what is proved of each of them holds of it.         *)
(***************************************************************************)
EXTENDS MCParts, ServiceProofs, BrowserProofs

partVars == <<part, deskVars, capVars, loadVars, fileVars, pipeVars, actVars, installVars>>

\* A step of one part leaves the other parts as they are.
LEMMA PartsStep ==
    ASSUME [PartsNext]_partVars
    PROVE  /\ [Next_Desktop]_deskVars /\ [Next_Capture]_capVars /\ [Next_PageLoad]_loadVars
           /\ [Next_Downloads]_fileVars /\ [Next_WorkerPipe]_pipeVars /\ [Next_Acts]_actVars
           /\ [Next_Install]_installVars /\ UNCHANGED part
  BY DEF PartsNext, partVars

\* Every behaviour of the run is one of each part.
LEMMA PartsAreParts ==
    PartsSpec => /\ Spec_Desktop /\ Spec_Capture /\ Spec_PageLoad /\ Spec_Downloads
                 /\ Spec_WorkerPipe /\ Spec_Acts /\ Spec_Install
<1>1. PartsInit => /\ Init_Desktop /\ Init_Capture /\ Init_PageLoad /\ Init_Downloads
                   /\ Init_WorkerPipe /\ Init_Acts /\ Init_Install
  BY DEF PartsInit
<1>2. [PartsNext]_partVars =>
        /\ [Next_Desktop]_deskVars /\ [Next_Capture]_capVars /\ [Next_PageLoad]_loadVars
        /\ [Next_Downloads]_fileVars /\ [Next_WorkerPipe]_pipeVars /\ [Next_Acts]_actVars
        /\ [Next_Install]_installVars
  BY PartsStep
<1> QED
  BY <1>1, <1>2, PTL DEF PartsSpec, partVars, Spec_Desktop, Spec_Capture, Spec_PageLoad, Spec_Downloads,
                         Spec_WorkerPipe, Spec_Acts, Spec_Install

\* All that the adapter, the desktop, the pipe and the installer keep is of the types the
\* code gives it, whatever the number of works, pages, downloads and requests.
THEOREM PartsTypeCorrect == PartsSpec => []PartsTypeOK
<1>1. /\ DesktopTypeOK /\ CaptureTypeOK /\ PageLoadTypeOK /\ DownloadsTypeOK
      /\ PipeTypeOK /\ ActsTypeOK /\ InstallTypeOK
      => PartsTypeOK
  BY DEF PartsTypeOK
<1> QED
  BY <1>1, PartsAreParts, DesktopTypeCorrect, CaptureTypeCorrect, PageLoadTypeCorrect, DownloadsTypeCorrect,
     PipeTypeCorrect, ActsTypeCorrect, InstallTypeCorrect, PTL
=============================================================================
