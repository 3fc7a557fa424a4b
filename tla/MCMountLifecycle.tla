-------------------------- MODULE MCMountLifecycle --------------------------
(* TLC instances of MountLifecycle: the events each run lets happen.        *)
EXTENDS MountLifecycle

\* everything that can happen to the CLI once MountFilesystem has set up fi.mu
CliEvents == {"open", "buildPanic", "mountFailure", "externalUnmount",
              "vaultFailure"}

\* a GUI whose mount succeeds and that is only left through the program
GuiEvents == {"open", "buildPanic", "vaultFailure"}

OpenOnly == {"open"}
ExternalUnmountOnly == {"externalUnmount"}
=============================================================================
