SPECIFICATION Spec
CONSTANTS
    user = user
    kernel = kernel
    UserWindows <- MCUserWindows
    KernelWindow = kernel
    Samples <- MCSamples
INVARIANT ChipSeesConfig
