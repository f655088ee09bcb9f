------------------------------ MODULE Maintenance ------------------------------
(***************************************************************************)
(* The parts that run on their own: the adapters of an inventory, a call   *)
(* of a scanner wrapper, the license check, rotate-secrets, pr-comment and *)
(* the plan scripts. They share no state, so a behavior is one of one of   *)
(* them; the others keep the state they start in.                          *)
(***************************************************************************)
EXTENDS InventoryComposition, LockAdapters, ManifestAdapters, GoHelper, ScannerWrappers,
        LicensePolicy, SecretRotation, PlanBoard, PullRequestComments

CONSTANT Programs

AllPrograms == {"composition", "locks", "manifest", "go", "wrapper", "license", "rotation", "board", "comments"}

ASSUME MaintenanceAssumption == Programs \subseteq AllPrograms

VARIABLE program

vars == <<program, compositionVars, lockVars, manifestVars, goVars, wrapperVars,
                   licenseVars, rotationVars, boardVars, reviewVars>>

\* The inputs of a program that does not run are of no interest: one is taken.
Inputs(p, all) == IF program = p THEN all ELSE {CHOOSE x \in all : TRUE}

Init ==
    /\ program \in Programs
    /\ \E t \in Inputs("composition", Trees), g \in Inputs("composition", Configs),
          l \in Inputs("locks", Locks), m \in Inputs("manifest", Manifests),
          h \in Inputs("go", Contents), w \in Inputs("wrapper", Calls),
          c \in Inputs("license", Cases), r \in Inputs("rotation", Reports), v \in Inputs("comments", Reviews) :
         /\ CompositionInit(t, g) /\ LockInit(l) /\ ManifestInit(m) /\ GoInit(h)
         /\ WrapperInit(w) /\ LicenseInit(c) /\ RotationInit(r) /\ CommentsInit(v)
    /\ BoardInit

ComposeStep ==
    /\ program = "composition" /\ CompositionNext
    /\ UNCHANGED <<program, lockVars, manifestVars, goVars, wrapperVars,
                   licenseVars, rotationVars, boardVars, reviewVars>>

LockStep ==
    /\ program = "locks" /\ LockNext
    /\ UNCHANGED <<program, compositionVars, manifestVars, goVars, wrapperVars,
                   licenseVars, rotationVars, boardVars, reviewVars>>

ManifestStep ==
    /\ program = "manifest" /\ ManifestNext
    /\ UNCHANGED <<program, compositionVars, lockVars, goVars, wrapperVars,
                   licenseVars, rotationVars, boardVars, reviewVars>>

GoStep ==
    /\ program = "go" /\ GoNext
    /\ UNCHANGED <<program, compositionVars, lockVars, manifestVars, wrapperVars,
                   licenseVars, rotationVars, boardVars, reviewVars>>

WrapperStep ==
    /\ program = "wrapper" /\ WrapperNext
    /\ UNCHANGED <<program, compositionVars, lockVars, manifestVars, goVars,
                   licenseVars, rotationVars, boardVars, reviewVars>>

LicenseStep ==
    /\ program = "license" /\ LicenseNext
    /\ UNCHANGED <<program, compositionVars, lockVars, manifestVars, goVars,
                   wrapperVars, rotationVars, boardVars, reviewVars>>

RotationStep ==
    /\ program = "rotation" /\ RotationNext
    /\ UNCHANGED <<program, compositionVars, lockVars, manifestVars, goVars,
                   wrapperVars, licenseVars, boardVars, reviewVars>>

BoardStep ==
    /\ program = "board" /\ BoardNext
    /\ UNCHANGED <<program, compositionVars, lockVars, manifestVars, goVars,
                   wrapperVars, licenseVars, rotationVars, reviewVars>>

CommentStep ==
    /\ program = "comments" /\ CommentsNext
    /\ UNCHANGED <<program, compositionVars, lockVars, manifestVars, goVars,
                   wrapperVars, licenseVars, rotationVars, boardVars>>

Next ==
    \/ ComposeStep \/ LockStep \/ ManifestStep \/ GoStep \/ WrapperStep
    \/ LicenseStep \/ RotationStep \/ BoardStep \/ CommentStep

Spec == Init /\ [][Next]_vars

TypeOK ==
    /\ CompositionTypeOK /\ LockTypeOK /\ ManifestTypeOK /\ GoTypeOK
    /\ WrapperTypeOK /\ LicenseTypeOK /\ RotationTypeOK /\ BoardTypeOK
=============================================================================
