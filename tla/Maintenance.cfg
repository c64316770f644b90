SPECIFICATION Spec
CONSTANTS
    p = p
    q = q
    h = h
    gp = gp
    gq = gq
    Skills = {p, q, h, gp, gq}
    ProjectSkills = {p, q, h}
    Mounted = {p, q, h, gp, gq}
    DirOf <- MCDirOf
    NamespaceDirs = {"skills", ".skills"}
    NameWords <- MCNameWords
    BodyWords <- MCBodyWords
    RootComponents = {"home", "a"}
    SkipComponents = {"home"}
    Close = {{p, gp}, {q, gp}, {h, gp}}
    Uses <- MCUses
    Copy <- MCCopy
    Merged <- MCMerged
    RawThreshold = 1
    Environment <- MCEnvironment
INVARIANTS IntrinsicStaysGlobal HarnessSkillsUntouched
PROPERTIES NeverOverwritten
