SPECIFICATION PatientSpec
CHECK_DEADLOCK FALSE
CONSTANTS
    Passwords = {admin, reader, wrong}
    Accepted = {admin, reader}
    Sufficient = {admin}
    admin = admin
    reader = reader
    wrong = wrong
PROPERTY
    PromptEnds
