\* Two vacancies and a resume over one location, one source and two skills.
CONSTANTS
    v1 = v1
    v2 = v2
    r1 = r1
    l1 = l1
    o1 = o1
    s1 = s1
    s2 = s2
    None = None
    Vacancies = {v1, v2}
    Resumes = {r1}
    Companies = {}
    Locations = {l1}
    Sources = {o1}
    Skills <- MCSkills
    SkillLists <- MCSkillLists
    MaxPersists = 3
SPECIFICATION Spec
SYMMETRY Symmetry
INVARIANTS
    CoreRefsHold
    OwnRefsHold
    CacheNeverMisnames
    DeadlocksAreOfSkills
CHECK_DEADLOCK FALSE
